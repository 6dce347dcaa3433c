----------------------- MODULE RendererProcessProofs ------------------------
(* For any limits, any lines and any child: what a renderer that has chosen   *)
(* its outcome leaves behind, that progress never goes back, and when a call  *)
(* is over, or its child stopped, at the latest.                              *)
EXTENDS RendererProcess, TLAPS

ChildRec  == [pc : {"none", "running", "dead"}, code : {"-", "zero", "bad"},
              deaf : BOOLEAN, helper : BOOLEAN, left : Int]
ReaderRec == [pc : {"off", "reading", "writing", "checking", "eof", "broken"}, percent : Int]
MainRec   == [pc : {"spawn", "watching", "stopping", "gathering", "logging"},
              why : {"-", "missing", "timeout", "cancelled"}, alarm : Int, doomed : BOOLEAN]

Types ==
    /\ kind \in Kinds /\ now \in Nat
    /\ child \in ChildRec
    /\ output \in {"none", "partial", "whole"}
    /\ pipe \in [Streams -> Seq(Int)]
    /\ reader \in [Streams -> ReaderRec]
    /\ main \in MainRec
    /\ outcome \in Ended \cup {"none"}

\* Readers that wait_for runs are at work only while it waits; the tasks of
\* hyperframes do not check for a cancel.
ReadersWatch ==
    /\ \A s \in Streams :
          reader[s].pc \in {"reading", "writing", "checking"} =>
              kind = "hyperframes" \/ (main.pc = "watching" /\ outcome = "none")
    /\ kind = "hyperframes" => \A s \in Streams : reader[s].pc # "checking"
    /\ kind # "hyperframes" => reader["out"].pc = "off"

\* Where the child is, by the location of the coroutine, and what its exit code says.
ChildKnown ==
    /\ child.pc # "dead" => child.code = "-"
    /\ main.pc = "spawn" => child.pc = "none" /\ outcome = "none" /\ ~main.doomed
    /\ main.pc = "gathering" /\ ~main.doomed => child.pc = "dead"
    /\ main.pc = "logging" => child.pc # "running"
    /\ main.pc = "stopping" => main.why # "-"
    /\ main.why = "-" /\ child.code = "zero" => output \in {"whole", "none"}

\* A chosen outcome was chosen by Conclude, and the file is still as it left it.
Verdict ==
    outcome \in Chosen =>
        /\ main.pc = "logging"
        /\ outcome = "ok" => ~Failed
        /\ outcome # "ok" /\ kind \in Removing => output = "none"

IInv == Types /\ ReadersWatch /\ ChildKnown /\ Verdict

-----------------------------------------------------------------------------

\* What the constants are, in the types of the prover.
LEMMA Numbers == /\ Grace \in Nat /\ Lines \subseteq Int /\ MaxLines \in Nat
  BY ProcessAssumption DEF Lines, Text, Long

\* Initially there is no child and nobody reads.
LEMMA InitIInv == Init => IInv
<1> SUFFICES ASSUME Init PROVE IInv
  OBVIOUS
<1>1. Types
  BY DEF Init, Types, ChildRec, ReaderRec, MainRec, Ended, Kinds
<1>2. ReadersWatch /\ ChildKnown /\ Verdict
  BY DEF Init, ReadersWatch, ChildKnown, Verdict, Chosen, Streams
<1>3. QED
  BY <1>1, <1>2 DEF IInv

\* What the child and its descendants do.
LEMMA ChildSteps ==
    ASSUME IInv,
           \/ \E s \in Streams, line \in Lines : ChildWrites(s, line)
           \/ \E code \in {"zero", "bad"} : ChildExits(code)
           \/ HelperExits
    PROVE  IInv'
<1>0. Types /\ child \in ChildRec
  BY DEF IInv, Types
<1>1. UNCHANGED <<kind, reader, main, outcome, now>>
  BY DEF ChildWrites, ChildExits, HelperExits
<1>2. pipe' \in [Streams -> Seq(Int)]
  <2>1. ASSUME NEW s \in Streams, NEW line \in Lines, ChildWrites(s, line)
        PROVE  pipe' \in [Streams -> Seq(Int)]
    <3>1. Append(pipe[s], line) \in Seq(Int)
      BY <1>0, Numbers DEF Types
    <3>2. QED
      BY <1>0, <2>1, <3>1 DEF Types, ChildWrites
  <2>2. QED
    BY <1>0, <2>1 DEF ChildExits, HelperExits, Types
<1>3. CASE \E s \in Streams, line \in Lines : ChildWrites(s, line)
  <2>1. child.pc = "running" /\ child' = [child EXCEPT !.left = child.left - 1]
        /\ output' \in {"partial", output}
    BY <1>3 DEF ChildWrites
  <2>2. child' \in ChildRec /\ child'.pc = "running" /\ child'.code = child.code
    BY <1>0, <2>1 DEF ChildRec
  <2>3. Types'
    BY <1>0, <1>1, <1>2, <2>1, <2>2 DEF Types
  <2>4. child.code = "-" /\ main.pc # "logging"
    BY <2>1 DEF IInv, ChildKnown
  <2>5. ReadersWatch'
    BY <1>1 DEF IInv, ReadersWatch
  <2>6. ChildKnown'
    BY <1>1, <2>1, <2>2, <2>4 DEF IInv, ChildKnown
  <2>7. Verdict'
    BY <1>1, <2>4 DEF IInv, Verdict
  <2>8. QED
    BY <2>3, <2>5, <2>6, <2>7 DEF IInv
<1>4. CASE \E code \in {"zero", "bad"} : ChildExits(code)
  <2>1. PICK code \in {"zero", "bad"} : ChildExits(code)
    BY <1>4
  <2>2. child.pc = "running" /\ child' = [child EXCEPT !.pc = "dead", !.code = code]
    BY <2>1 DEF ChildExits
  <2>3. child' \in ChildRec /\ child'.pc = "dead" /\ child'.code = code
    BY <1>0, <2>2 DEF ChildRec
  <2>4. output' \in IF main.pc # "stopping" /\ code = "zero" THEN {"whole", "none"} ELSE {output}
    BY <2>1 DEF ChildExits
  <2>5. Types'
    BY <1>0, <1>1, <1>2, <2>3, <2>4 DEF Types
  <2>6. main.pc # "logging"
    BY <2>2 DEF IInv, ChildKnown
  <2>7. ReadersWatch'
    BY <1>1 DEF IInv, ReadersWatch
  <2>8. ChildKnown'
    BY <1>1, <2>2, <2>3, <2>4, <2>6 DEF IInv, ChildKnown
  <2>9. Verdict'
    BY <1>1, <2>6 DEF IInv, Verdict
  <2>10. QED
    BY <2>5, <2>7, <2>8, <2>9 DEF IInv
<1>5. CASE HelperExits
  <2>1. child' \in ChildRec /\ child'.pc = child.pc /\ child'.code = child.code
        /\ output' = output
    BY <1>0, <1>5 DEF HelperExits, ChildRec
  <2>2. QED
    BY <1>0, <1>1, <1>2, <2>1 DEF IInv, Types, ReadersWatch, ChildKnown, Verdict, Failed
<1>6. QED
  BY <1>3, <1>4, <1>5

\* A reader goes on to another location.
LEMMA ReaderGoes ==
    ASSUME IInv, NEW s \in Streams,
           reader[s].pc \in {"reading", "writing", "checking"},
           NEW r \in ReaderRec, reader' = [reader EXCEPT ![s] = r],
           r.pc = "checking" => kind # "hyperframes",
           pipe' \in [Streams -> Seq(Int)],
           UNCHANGED <<kind, child, output, main, outcome, now>>
    PROVE  IInv'
<1>1. reader \in [Streams -> ReaderRec]
  BY DEF IInv, Types
<1>2. reader' \in [Streams -> ReaderRec] /\ reader'[s] = r
      /\ \A z \in Streams \ {s} : reader'[z] = reader[z]
  BY <1>1
<1>3. Types' /\ ChildKnown' /\ Verdict'
  BY <1>2 DEF IInv, Types, ChildKnown, Verdict, Failed
<1>4. kind # "hyperframes" => s = "err"
  BY DEF IInv, ReadersWatch, Streams
<1>5. ReadersWatch'
  BY <1>2, <1>4 DEF IInv, ReadersWatch, Streams
<1>6. QED
  BY <1>3, <1>5 DEF IInv

\* What the readers of the pipes do, and the writes of the callback.
LEMMA ReaderSteps ==
    ASSUME IInv, NEW s \in Streams,
           ReadLine(s) \/ ReadTooLong(s) \/ ReadEof(s) \/ ProgressWritten(s) \/ ProgressLost(s)
    PROVE  IInv'
<1>0. /\ reader \in [Streams -> ReaderRec] /\ pipe \in [Streams -> Seq(Int)]
      /\ reader[s] \in ReaderRec /\ pipe[s] \in Seq(Int)
  BY DEF IInv, Types
<1>a. AfterLine \in {"reading", "checking"} /\ (AfterLine = "checking" => kind # "hyperframes")
  BY DEF AfterLine
<1>r. ASSUME NEW pc \in {"off", "reading", "checking", "eof", "broken"}
      PROVE  /\ [reader[s] EXCEPT !.pc = pc] \in ReaderRec
             /\ [reader[s] EXCEPT !.pc = pc].pc = pc
  BY <1>0 DEF ReaderRec
<1>1. CASE ReadLine(s)
  <2>1. UNCHANGED <<kind, child, output, main, outcome, now>> /\ reader[s].pc = "reading"
        /\ pipe[s] # << >>
    BY <1>1 DEF ReadLine, Reading
  <2>2. Head(pipe[s]) \in Int /\ Tail(pipe[s]) \in Seq(Int)
    BY <1>0, <2>1
  <2>3. pipe' \in [Streams -> Seq(Int)]
    BY <1>0, <1>1, <2>2 DEF ReadLine
  <2>4. CASE reader' = [reader EXCEPT ![s] = [pc |-> "writing", percent |-> Head(pipe[s])]]
    <3>1. [pc |-> "writing", percent |-> Head(pipe[s])] \in ReaderRec
      BY <2>2 DEF ReaderRec
    <3>2. QED
      BY <2>1, <2>3, <2>4, <3>1, ReaderGoes
  <2>5. CASE reader' = [reader EXCEPT ![s].pc = AfterLine]
    <3>1. reader' = [reader EXCEPT ![s] = [reader[s] EXCEPT !.pc = AfterLine]]
      BY <2>5
    <3>2. QED
      BY <1>a, <1>r, <2>1, <2>3, <3>1, ReaderGoes
  <2>6. QED
    BY <1>1, <2>4, <2>5 DEF ReadLine
<1>2. CASE ReadTooLong(s)
  <2>1. UNCHANGED <<kind, child, output, main, pipe, now>> /\ reader[s].pc = "reading"
    BY <1>2 DEF ReadTooLong, Reading
  <2>2. CASE kind = "hyperframes"
    <3>1. reader' = [reader EXCEPT ![s] = [reader[s] EXCEPT !.pc = "broken"]] /\ outcome' = outcome
      BY <1>2, <2>2 DEF ReadTooLong
    <3>2. QED
      BY <1>0, <1>r, <2>1, <3>1, ReaderGoes
  <2>3. CASE kind # "hyperframes"
    <3>1. reader' = [reader EXCEPT ![s] = [reader[s] EXCEPT !.pc = "off"]] /\ outcome' = "raised"
      BY <1>2, <2>3 DEF ReadTooLong
    <3>2. reader' \in [Streams -> ReaderRec] /\ reader'[s].pc = "off"
          /\ \A z \in Streams \ {s} : reader'[z] = reader[z]
      BY <1>0, <1>r, <3>1
    <3>3. s = "err" /\ reader["out"].pc = "off"
      BY <2>1, <2>3 DEF IInv, ReadersWatch, Streams
    <3>4. ReadersWatch'
      BY <2>1, <2>3, <3>2, <3>3 DEF ReadersWatch, Streams
    <3>5. QED
      BY <2>1, <2>3, <3>1, <3>2, <3>4
      DEF IInv, Types, ReadersWatch, ChildKnown, Verdict, Chosen, Ended
  <2>4. QED
    BY <2>2, <2>3
<1>3. CASE ReadEof(s)
  <2>1. reader' = [reader EXCEPT ![s] = [reader[s] EXCEPT !.pc = "eof"]]
        /\ UNCHANGED <<kind, child, output, main, outcome, now, pipe>> /\ reader[s].pc = "reading"
    BY <1>3 DEF ReadEof, Reading
  <2>2. QED
    BY <1>0, <1>r, <2>1, ReaderGoes
<1>4. CASE ProgressWritten(s) \/ ProgressLost(s)
  <2>1. reader' = [reader EXCEPT ![s] = [reader[s] EXCEPT !.pc = AfterLine]]
        /\ UNCHANGED <<kind, child, output, main, outcome, now, pipe>> /\ reader[s].pc = "writing"
    BY <1>4 DEF ProgressWritten, ProgressLost
  <2>2. QED
    BY <1>0, <1>a, <1>r, <2>1, ReaderGoes
<1>5. QED
  BY <1>1, <1>2, <1>3, <1>4

-----------------------------------------------------------------------------

\* The coroutine goes on, and touches neither the child nor the pipes.  The readers
\* it had go on, or wait_for has cancelled them.
LEMMA MainGoes ==
    ASSUME IInv, outcome = "none",
           NEW m \in MainRec, main' = m,
           reader' = reader \/ reader' = ReadersLeft,
           kind = "hyperframes" \/ reader' = ReadersLeft,
           m.pc # "spawn",
           m.pc = "gathering" /\ ~m.doomed => child.pc = "dead",
           m.pc = "logging" => child.pc # "running",
           m.pc = "stopping" => m.why # "-",
           m.why = "-" => main.why = "-",
           UNCHANGED <<kind, child, output, pipe, outcome>>, now' \in Nat
    PROVE  IInv'
<1>1. reader \in [Streams -> ReaderRec]
  BY DEF IInv, Types
<1>2. reader' \in [Streams -> ReaderRec]
  BY <1>1 DEF ReadersLeft, ReaderRec
<1>3. Types'
  BY <1>2 DEF IInv, Types
<1>4. ReadersWatch'
  <2>1. CASE kind = "hyperframes" /\ reader' = reader
    BY <2>1 DEF IInv, ReadersWatch
  <2>2. CASE kind # "hyperframes" /\ reader' = [s \in Streams |-> [reader[s] EXCEPT !.pc = "off"]]
    <3>1. \A s \in Streams : reader'[s].pc = "off"
      BY <1>1, <2>2 DEF ReaderRec
    <3>2. QED
      BY <2>2, <3>1 DEF ReadersWatch, Streams
  <2>3. QED
    BY <2>1, <2>2 DEF ReadersLeft
<1>5. ChildKnown' /\ Verdict'
  BY DEF IInv, ChildKnown, Verdict, Chosen
<1>6. QED
  BY <1>3, <1>4, <1>5 DEF IInv

\* _terminate_process can be begun from any check of the coroutine.
LEMMA StopGoes ==
    ASSUME IInv, outcome = "none", NEW why \in {"timeout", "cancelled"}, Stop(why),
           reader' = reader \/ reader' = ReadersLeft,
           kind = "hyperframes" \/ reader' = ReadersLeft
    PROVE  IInv'
<1>1. main \in MainRec /\ now \in Nat /\ now + Grace \in Int
  BY Numbers DEF IInv, Types
<1>2. main' = [main EXCEPT !.pc = "stopping", !.why = why, !.alarm = now + Grace]
      /\ UNCHANGED <<kind, child, output, pipe, outcome, now>>
  BY DEF Stop
<1>3. main' \in MainRec /\ main'.pc = "stopping" /\ main'.why = why
  <2>1. PICK a \in Int : a = now + Grace
    BY <1>1
  <2>2. main' = [main EXCEPT !.pc = "stopping", !.why = why, !.alarm = a]
    BY <1>2, <2>1
  <2>3. QED
    BY <1>1, <2>2 DEF MainRec
<1>4. QED
  BY <1>1, <1>2, <1>3, MainGoes

\* Starting the child.
LEMMA SpawnSteps ==
    ASSUME IInv, Spawn \/ BinaryMissing
    PROVE  IInv'
<1>0. /\ main \in MainRec /\ reader \in [Streams -> ReaderRec] /\ main.pc = "spawn"
      /\ child.pc = "none" /\ child.code = "-" /\ outcome = "none"
  BY DEF IInv, Types, ChildKnown, Spawn, BinaryMissing
<1>1. outcome \notin Chosen
  BY <1>0 DEF IInv, Verdict
<1>2. CASE Spawn
  <2>1. UNCHANGED <<kind, output, pipe, outcome, now>>
    BY <1>2 DEF Spawn
  <2>2. child' \in ChildRec /\ child'.pc = "running" /\ child'.code = "-"
    BY <1>2, Numbers DEF Spawn, ChildRec
  <2>3. main' \in MainRec /\ main'.pc = "watching" /\ main'.why = main.why
    BY <1>0, <1>2 DEF Spawn, MainRec
  <2>4. reader' \in [Streams -> ReaderRec]
    BY <1>0, <1>2 DEF Spawn, ReaderRec
  <2>5. \A s \in Streams : reader'[s].pc = IF s \in Watched THEN "reading" ELSE reader[s].pc
    BY <1>0, <1>2 DEF Spawn, ReaderRec
  <2>6. Types' /\ ChildKnown' /\ Verdict'
    BY <1>1, <2>1, <2>2, <2>3, <2>4 DEF IInv, Types, ChildKnown, Verdict
  <2>7. ReadersWatch'
    BY <1>0, <2>1, <2>3, <2>5 DEF IInv, ReadersWatch, Watched, Streams
  <2>8. QED
    BY <2>6, <2>7 DEF IInv
<1>3. CASE BinaryMissing
  <2>1. UNCHANGED <<kind, child, output, pipe, reader, outcome, now>>
    BY <1>3 DEF BinaryMissing
  <2>2. main' \in MainRec /\ main'.pc = "logging" /\ main'.why = "missing"
    BY <1>0, <1>3 DEF BinaryMissing, MainRec
  <2>3. Types' /\ ReadersWatch' /\ ChildKnown' /\ Verdict'
    BY <1>0, <1>1, <2>1, <2>2 DEF IInv, Types, ReadersWatch, ChildKnown, Verdict
  <2>4. QED
    BY <2>3 DEF IInv
<1>4. QED
  BY <1>2, <1>3

\* cancel_check after a line of editly or native.
LEMMA CheckSteps ==
    ASSUME IInv, NEW s \in Streams, Check(s)
    PROVE  IInv'
<1>1. reader[s].pc = "checking" /\ kind # "hyperframes" /\ outcome = "none"
  BY DEF Check, IInv, ReadersWatch
<1>2. CASE Stop("cancelled") /\ reader' = ReadersLeft
  BY <1>1, <1>2, StopGoes
<1>3. CASE /\ reader' = [reader EXCEPT ![s].pc = "reading"]
           /\ UNCHANGED <<kind, child, output, pipe, main, outcome, now>>
  <2>1. reader' = [reader EXCEPT ![s] = [reader[s] EXCEPT !.pc = "reading"]]
    BY <1>3
  <2>2. [reader[s] EXCEPT !.pc = "reading"] \in ReaderRec
        /\ [reader[s] EXCEPT !.pc = "reading"].pc = "reading"
    BY DEF IInv, Types, ReaderRec
  <2>3. pipe' \in [Streams -> Seq(Int)]
    BY <1>3 DEF IInv, Types
  <2>4. QED
    BY <1>1, <1>3, <2>1, <2>2, <2>3, ReaderGoes
<1>4. QED
  BY <1>2, <1>3 DEF Check

\* What ends the watch: the renderer's timeout, the end of the child, a poll.
LEMMA WatchSteps ==
    ASSUME IInv, InnerTimeout \/ Finished \/ Poll
    PROVE  IInv'
<1>1. main.pc = "watching" /\ main \in MainRec /\ now \in Nat /\ now + Grace \in Int
  BY Numbers DEF InnerTimeout, Finished, Poll, IInv, Types
<1>2. CASE InnerTimeout
  BY <1>2, StopGoes DEF InnerTimeout, Alive
<1>3. CASE Finished
  <2>1. /\ UNCHANGED <<kind, child, output, pipe, reader, outcome, now>>
        /\ child.pc = "dead" /\ reader["err"].pc = "eof" /\ kind # "hyperframes"
        /\ outcome = "none"
    BY <1>3 DEF Finished, Alive
  <2>2. main' \in MainRec /\ main'.pc = "logging" /\ main'.why = main.why
    BY <1>1, <1>3 DEF Finished, MainRec
  <2>3. Types' /\ ChildKnown' /\ Verdict'
    BY <2>1, <2>2 DEF IInv, Types, ChildKnown, Verdict, Chosen
  <2>4. ReadersWatch'
    BY <2>1, <2>2 DEF IInv, ReadersWatch, Streams
  <2>5. QED
    BY <2>3, <2>4 DEF IInv
<1>4. CASE Poll
  <2>1. kind = "hyperframes" /\ reader' = reader
    BY <1>4 DEF Poll
  <2>2. outcome \notin Chosen
    BY <1>1 DEF IInv, Verdict
  <2>3. ASSUME main' \in MainRec, main'.pc \in {"gathering", "watching", "stopping"},
               main'.pc = "gathering" => child.pc = "dead",
               main'.pc = "stopping" => main'.why # "-",
               main'.why = "-" => main.why = "-",
               UNCHANGED <<kind, child, output, pipe, outcome, now>>
        PROVE  IInv'
    <3>1. Types' /\ ReadersWatch'
      BY <2>1, <2>3 DEF IInv, Types, ReadersWatch
    <3>2. ChildKnown' /\ Verdict'
      BY <2>2, <2>3 DEF IInv, ChildKnown, Verdict
    <3>3. QED
      BY <3>1, <3>2 DEF IInv
  <2>4. CASE child.pc = "dead" /\ main' = [main EXCEPT !.pc = "gathering"]
             /\ UNCHANGED <<kind, child, output, pipe, outcome, now>>
    <3>1. main' \in MainRec /\ main'.pc = "gathering" /\ main'.why = main.why
      BY <1>1, <2>4 DEF MainRec
    <3>2. QED
      BY <2>3, <2>4, <3>1
  <2>5. ASSUME NEW why \in {"timeout", "cancelled"}, Stop(why) PROVE IInv'
    <3>1. main' = [main EXCEPT !.pc = "stopping", !.why = why, !.alarm = now + Grace]
          /\ UNCHANGED <<kind, child, output, pipe, outcome, now>>
      BY <2>5 DEF Stop
    <3>2. main' \in MainRec /\ main'.pc = "stopping" /\ main'.why = why
      <4>1. PICK a \in Int : a = now + Grace
        BY <1>1
      <4>2. main' = [main EXCEPT !.pc = "stopping", !.why = why, !.alarm = a]
        BY <3>1, <4>1
      <4>3. QED
        BY <1>1, <2>5, <4>2 DEF MainRec
    <3>3. QED
      BY <2>3, <3>1, <3>2
  <2>6. CASE main' = [main EXCEPT !.alarm = now + 1]
             /\ UNCHANGED <<kind, child, output, pipe, outcome, now>>
    <3>1. main' \in MainRec /\ main'.pc = "watching" /\ main'.why = main.why
      BY <1>1, <2>6 DEF MainRec
    <3>2. QED
      BY <2>3, <2>6, <3>1
  <2>7. QED
    BY <1>4, <2>4, <2>5, <2>6 DEF Poll
<1>5. QED
  BY <1>2, <1>3, <1>4

\* The child is made to end, and the readers of hyperframes are waited for.
LEMMA StopSteps ==
    ASSUME IInv, Kill \/ Gathered
    PROVE  IInv'
<1>1. main \in MainRec /\ child \in ChildRec /\ outcome = "none"
      /\ UNCHANGED <<kind, output, pipe, reader, now>>
  BY DEF Kill, Gathered, Alive, IInv, Types
<1>2. CASE Kill
  <2>1. main.pc = "stopping" /\ main.why # "-" /\ outcome' = outcome
    BY <1>2 DEF Kill, IInv, ChildKnown
  <2>2. main' \in MainRec /\ main'.pc \in {"gathering", "logging"} /\ main'.why = main.why
    BY <1>1, <1>2 DEF Kill, AfterStop, MainRec
  <2>3. child' \in ChildRec /\ child'.pc = "dead"
    BY <1>1, <1>2 DEF Kill, ChildRec
  <2>4. Types' /\ ChildKnown' /\ Verdict'
    BY <1>1, <2>1, <2>2, <2>3 DEF IInv, Types, ChildKnown, Verdict, Chosen
  <2>5. ReadersWatch'
    BY <1>1, <2>1, <2>2 DEF IInv, ReadersWatch
  <2>6. QED
    BY <2>4, <2>5 DEF IInv
<1>3. CASE Gathered
  <2>1. /\ main.pc = "gathering" /\ child' = child
        /\ \A s \in Streams : reader[s].pc \in {"eof", "broken"}
    BY <1>3 DEF Gathered
  <2>2. CASE main.doomed /\ outcome' = "abandoned" /\ main' = main
    <3>1. Types' /\ ReadersWatch' /\ ChildKnown' /\ Verdict'
      BY <1>1, <2>1, <2>2
      DEF IInv, Types, Ended, ReadersWatch, ChildKnown, Verdict, Chosen
    <3>2. QED
      BY <3>1 DEF IInv
  <2>3. CASE ~main.doomed /\ main' = [main EXCEPT !.pc = "logging"] /\ outcome' = outcome
    <3>1. main' \in MainRec /\ main'.pc = "logging" /\ main'.why = main.why
      BY <1>1, <2>3 DEF MainRec
    <3>2. child.pc = "dead"
      BY <2>1, <2>3 DEF IInv, ChildKnown
    <3>3. Types' /\ ReadersWatch' /\ ChildKnown' /\ Verdict'
      BY <1>1, <2>1, <2>3, <3>1, <3>2
      DEF IInv, Types, ReadersWatch, ChildKnown, Verdict, Chosen
    <3>4. QED
      BY <3>3 DEF IInv
  <2>4. QED
    BY <1>3, <2>2, <2>3 DEF Gathered
<1>4. QED
  BY <1>2, <1>3

\* The verdict, or the log that cannot be written.
LEMMA VerdictSteps ==
    ASSUME IInv, Conclude \/ LogFails
    PROVE  IInv'
<1>1. /\ main.pc = "logging" /\ outcome = "none"
      /\ UNCHANGED <<kind, child, pipe, reader, main, now>>
  BY DEF Conclude, LogFails, Alive
<1>2. ReadersWatch'
  BY <1>1 DEF IInv, ReadersWatch
<1>3. CASE Conclude
  <2>1. CASE Failed
    <3>1. outcome' \in {"timeout", "cancelled", "failed"}
          /\ output' = IF kind \in Removing THEN "none" ELSE output
      BY <1>3, <2>1 DEF Conclude
    <3>2. Types'
      BY <1>1, <3>1 DEF IInv, Types, Ended
    <3>3. ChildKnown'
      BY <1>1, <3>1 DEF IInv, ChildKnown
    <3>4. Verdict'
      BY <1>1, <3>1 DEF Verdict
    <3>5. QED
      BY <1>2, <3>2, <3>3, <3>4 DEF IInv
  <2>2. CASE ~Failed
    <3>1. outcome' = "ok" /\ output' = output
      BY <1>3, <2>2 DEF Conclude
    <3>2. Types' /\ ChildKnown'
      BY <1>1, <3>1 DEF IInv, Types, Ended, ChildKnown
    <3>3. Verdict'
      BY <1>1, <2>2, <3>1 DEF Verdict, Failed
    <3>4. QED
      BY <1>2, <3>2, <3>3 DEF IInv
  <2>3. QED
    BY <2>1, <2>2
<1>4. CASE LogFails
  <2>1. outcome' = "raised" /\ output' \in {"none", output}
    BY <1>4 DEF LogFails
  <2>2. Types' /\ ChildKnown' /\ Verdict'
    BY <1>1, <2>1 DEF IInv, Types, Ended, ChildKnown, Verdict, Chosen
  <2>3. QED
    BY <1>2, <2>2 DEF IInv
<1>5. QED
  BY <1>3, <1>4

\* The timeouts around the coroutine.
LEMMA TimeoutSteps ==
    ASSUME IInv, PipelineTimeout \/ JobTimeout
    PROVE  IInv'
<1>0. /\ main \in MainRec /\ reader \in [Streams -> ReaderRec] /\ outcome = "none"
      /\ UNCHANGED <<kind, child, output, pipe, now>>
  BY DEF PipelineTimeout, JobTimeout, JobExpires, Alive, IInv, Types
<1>off. ASSUME reader' = [s \in Streams |-> [reader[s] EXCEPT !.pc = "off"]]
        PROVE  reader' \in [Streams -> ReaderRec] /\ \A s \in Streams : reader'[s].pc = "off"
  BY <1>0, <1>off DEF ReaderRec
<1>1. ASSUME outcome' = "abandoned", main' = main, main.pc # "spawn",
             reader' = [s \in Streams |-> [reader[s] EXCEPT !.pc = "off"]]
      PROVE  IInv'
  <2>1. Types' /\ ChildKnown' /\ Verdict'
    BY <1>0, <1>1, <1>off DEF IInv, Types, Ended, ChildKnown, Verdict, Chosen
  <2>2. ReadersWatch'
    BY <1>1, <1>off DEF ReadersWatch, Streams
  <2>3. QED
    BY <2>1, <2>2 DEF IInv
<1>2. CASE JobTimeout
  BY <1>1, <1>2 DEF JobTimeout, JobExpires, IInv, ChildKnown
<1>3. CASE PipelineTimeout
  <2>1. CASE kind = "hyperframes" /\ main.pc \in {"watching", "stopping"}
    <3>1. main' = [main EXCEPT !.pc = "gathering", !.doomed = TRUE]
          /\ outcome' = outcome /\ reader' = reader
      BY <1>3, <2>1 DEF PipelineTimeout
    <3>2. main' \in MainRec /\ main'.pc = "gathering" /\ main'.doomed /\ main'.why = main.why
      BY <1>0, <3>1 DEF MainRec
    <3>3. Types' /\ ReadersWatch' /\ ChildKnown' /\ Verdict'
      BY <1>0, <2>1, <3>1, <3>2 DEF IInv, Types, ReadersWatch, ChildKnown, Verdict, Chosen
    <3>4. QED
      BY <3>3 DEF IInv
  <2>2. CASE ~(kind = "hyperframes" /\ main.pc \in {"watching", "stopping"})
    BY <1>1, <1>3, <2>2 DEF PipelineTimeout
  <2>3. QED
    BY <2>1, <2>2
<1>4. QED
  BY <1>2, <1>3

\* Every step keeps the invariant; the clock, the user and rest touch none of it.
LEMMA NextIInv == IInv /\ [Next]_vars => IInv'
<1> SUFFICES ASSUME IInv, [Next]_vars PROVE IInv'
  OBVIOUS
<1>1. CASE UserCancels \/ Rest \/ UNCHANGED vars
  BY <1>1 DEF UserCancels, Rest, vars, IInv, Types, ReadersWatch, ChildKnown, Verdict, Failed
<1>2. CASE Tick
  <2>1. UNCHANGED <<kind, child, output, pipe, reader, main, outcome>> /\ now' = now + 1
    BY <1>2 DEF Tick
  <2>2. QED
    BY <2>1 DEF IInv, Types, ReadersWatch, ChildKnown, Verdict, Failed
<1>3. CASE Coroutines
  <2>1. CASE \E s \in Streams : ReadLine(s) \/ ReadTooLong(s) \/ ReadEof(s)
    BY <2>1, ReaderSteps
  <2>2. CASE \E s \in Streams : Check(s)
    BY <2>2, CheckSteps
  <2>3. QED
    BY <1>3, <2>1, <2>2, SpawnSteps, WatchSteps, StopSteps, VerdictSteps, TimeoutSteps
    DEF Coroutines
<1>4. CASE \E s \in Streams : ProgressWritten(s) \/ ProgressLost(s)
  BY <1>4, ReaderSteps
<1>5. QED
  BY <1>1, <1>2, <1>3, <1>4, ChildSteps DEF Next

\* The invariant holds in every reachable state, for any limits and any number of
\* lines and faults.
THEOREM ProcessInvariance == Spec => []IInv
<1>1. Init => IInv
  BY InitIInv
<1>2. IInv /\ [Next]_vars => IInv'
  BY NextIInv
<1>3. QED
  BY <1>1, <1>2, PTL DEF Spec

\* A renderer that returns or raises its own error has no process left: Conclude is
\* reached only over a child that is dead or was never started.
THEOREM ChosenLeavesNoChild == Spec => []ChosenIsDead
<1>1. IInv => ChosenIsDead
  BY DEF IInv, Verdict, ChildKnown, ChosenIsDead
<1>2. QED
  BY <1>1, ProcessInvariance, PTL

\* A coroutine that returns has the file of a child that ended by itself with code 0,
\* and where one removes the output of a failure (all but Editly's and generate_poster,
\* poster.py:60-95), it stays removed.
THEOREM FileIsAsReported == Spec => []FileFitsOutcome
<1>1. IInv => FileFitsOutcome
  BY DEF IInv, Verdict, ChildKnown, FileFitsOutcome, Failed, Chosen
<1>2. QED
  BY <1>1, ProcessInvariance, PTL

-----------------------------------------------------------------------------
(* Progress.  Where one reader reports, the callback remembers the report that *)
(* is being written, and is ahead of whatever has been written before.        *)

ReportAhead ==
    /\ reader["err"].pc = "writing" => reader["err"].percent = callback.last
    /\ row.progress # 30 => row.progress <= callback.last

Progress ==
    /\ callback \in [last : Int, at : Int]
    /\ row \in [progress : Int, cancel : Int]
    /\ kind # "hyperframes" => ReportAhead

\* Steps that neither report nor write: a reader at most leaves its write undone.
LEMMA ProgressQuiet ==
    ASSUME Progress, kind' = kind, callback' = callback, row' = row,
           kind # "hyperframes" =>
               \/ reader' = reader
               \/ reader'["err"].pc # "writing"
    PROVE  Progress'
  BY DEF Progress, ReportAhead

\* wait_for cancels a reader: it writes no more.
LEMMA ReadersOff ==
    ASSUME IInv, reader' = [s \in Streams |-> [reader[s] EXCEPT !.pc = "off"]]
    PROVE  reader'["err"].pc = "off"
  BY DEF IInv, Types, ReaderRec, Streams

\* A line may make a report, if it is ahead of the last one.
LEMMA ReadLineProgress ==
    ASSUME IInv, Progress, NEW s \in Streams, ReadLine(s)
    PROVE  Progress'
<1>0. /\ reader \in [Streams -> ReaderRec] /\ pipe[s] \in Seq(Int) /\ pipe[s] # << >>
      /\ now \in Nat /\ callback \in [last : Int, at : Int]
      /\ row \in [progress : Int, cancel : Int]
      /\ UNCHANGED <<kind, row>> /\ reader[s].pc = "reading"
  BY DEF IInv, Types, Progress, ReadLine, Reading
<1>1. kind # "hyperframes" => s = "err"
  BY <1>0 DEF IInv, ReadersWatch, Streams
<1> DEFINE p == Head(pipe[s])
<1>2. p \in Int
  BY <1>0
<1>3. CASE Reports(p)
  <2>1. callback' = [last |-> p, at |-> now]
        /\ reader' = [reader EXCEPT ![s] = [pc |-> "writing", percent |-> p]]
    BY <1>3 DEF ReadLine
  <2>2. callback' \in [last : Int, at : Int] /\ callback'.last = p /\ p >= callback.last
    BY <1>0, <1>2, <1>3, <2>1 DEF Reports
  <2>3. kind # "hyperframes" => reader'["err"].percent = p
    BY <1>0, <1>1, <2>1 DEF Streams
  <2>4. QED
    BY <1>0, <1>2, <2>2, <2>3 DEF Progress, ReportAhead
<1>4. CASE ~Reports(p)
  <2>1. callback' = callback /\ reader' = [reader EXCEPT ![s].pc = AfterLine]
    BY <1>4 DEF ReadLine
  <2>2. reader'[s].pc = AfterLine
    BY <1>0, <2>1 DEF ReaderRec
  <2>3. kind # "hyperframes" => reader'["err"].pc # "writing"
    BY <1>1, <2>2 DEF AfterLine
  <2>4. QED
    BY <1>0, <2>1, <2>3, ProgressQuiet
<1>5. QED
  BY <1>3, <1>4

\* A report reaches the row: it is the last one, and no smaller than those before.
LEMMA WrittenProgress ==
    ASSUME IInv, Progress, NEW s \in Streams, ProgressWritten(s)
    PROVE  /\ Progress'
           /\ kind # "hyperframes" /\ row.progress # 30 => row'.progress >= row.progress
<1>0. /\ reader \in [Streams -> ReaderRec] /\ row \in [progress : Int, cancel : Int]
      /\ callback \in [last : Int, at : Int]
      /\ UNCHANGED <<kind, callback>> /\ reader[s].pc = "writing"
  BY DEF IInv, Types, Progress, ProgressWritten
<1>1. kind # "hyperframes" => s = "err"
  BY <1>0 DEF IInv, ReadersWatch, Streams
<1>2. row' \in [progress : Int, cancel : Int] /\ row'.progress = reader[s].percent
  BY <1>0 DEF ProgressWritten, ReaderRec
<1>3. reader'[s].pc = AfterLine
  BY <1>0 DEF ProgressWritten, ReaderRec
<1>4. kind # "hyperframes" => reader'["err"].pc # "writing" /\ row'.progress = callback.last
  BY <1>0, <1>1, <1>2, <1>3 DEF Progress, ReportAhead, AfterLine
<1>5. QED
  BY <1>0, <1>2, <1>4 DEF Progress, ReportAhead

\* Progress is kept by every step, and no step takes it back.
LEMMA NextProgress ==
    ASSUME IInv, Progress, [Next]_vars
    PROVE  /\ Progress'
           /\ kind # "hyperframes" /\ row.progress # 30 => row'.progress >= row.progress
<1> DEFINE Forward == kind # "hyperframes" /\ row.progress # 30 => row'.progress >= row.progress
<1>0. reader \in [Streams -> ReaderRec] /\ now \in Nat /\ row.progress \in Int
  BY DEF IInv, Types, Progress
<1>q. ASSUME UNCHANGED <<kind, callback, row>>,
             kind # "hyperframes" => reader' = reader \/ reader'["err"].pc # "writing"
      PROVE  Progress' /\ Forward
  BY <1>0, <1>q, ProgressQuiet
<1>w. kind # "hyperframes" => reader["out"].pc = "off"
  BY DEF IInv, ReadersWatch
<1>pc. ASSUME NEW s \in Streams, NEW pc, pc # "writing",
              reader' = [reader EXCEPT ![s].pc = pc], reader[s].pc # "off"
       PROVE  kind # "hyperframes" => reader'["err"].pc # "writing"
  <2>1. reader'[s].pc = pc
    BY <1>0, <1>pc DEF ReaderRec
  <2>2. kind # "hyperframes" => s = "err"
    BY <1>w, <1>pc DEF Streams
  <2>3. QED
    BY <1>pc, <2>1, <2>2
<1>left. ASSUME reader' = ReadersLeft
         PROVE  kind # "hyperframes" => reader'["err"].pc # "writing"
  BY <1>left, ReadersOff DEF ReadersLeft
<1>1. CASE \/ \E s \in Streams, line \in Lines : ChildWrites(s, line)
           \/ \E code \in {"zero", "bad"} : ChildExits(code)
           \/ HelperExits \/ BinaryMissing \/ Finished \/ Kill \/ Gathered
           \/ Conclude \/ LogFails \/ Tick \/ Rest \/ UNCHANGED vars
  BY <1>1, <1>q
  DEF ChildWrites, ChildExits, HelperExits, BinaryMissing, Finished, Kill, Gathered,
      Conclude, LogFails, Tick, Rest, vars
<1>2. CASE UserCancels
  <2>1. row' = [row EXCEPT !.cancel = now] /\ UNCHANGED <<kind, callback, reader>>
    BY <1>2 DEF UserCancels
  <2>2. row' \in [progress : Int, cancel : Int] /\ row'.progress = row.progress
    BY <1>0, <2>1 DEF Progress
  <2>3. QED
    BY <1>0, <2>1, <2>2 DEF Progress, ReportAhead
<1>3. CASE Spawn
  <2>1. reader'["err"].pc = "reading" /\ UNCHANGED <<kind, callback, row>>
    BY <1>0, <1>3 DEF Spawn, Streams, Watched, ReaderRec
  <2>2. QED
    BY <1>q, <2>1
<1>4. CASE \E s \in Streams : ReadLine(s)
  <2>1. Progress' /\ row' = row
    BY <1>4, ReadLineProgress DEF ReadLine
  <2>2. QED
    BY <1>0, <2>1
<1>5. CASE \E s \in Streams : ReadTooLong(s) \/ ReadEof(s) \/ ProgressLost(s)
  <2>1. PICK s \in Streams : ReadTooLong(s) \/ ReadEof(s) \/ ProgressLost(s)
    BY <1>5
  <2>2. UNCHANGED <<kind, callback, row>> /\ reader[s].pc # "off"
    BY <2>1 DEF ReadTooLong, ReadEof, ProgressLost, Reading
  <2>3. \E pc \in {"broken", "off", "eof", "reading", "checking"} :
            reader' = [reader EXCEPT ![s].pc = pc]
    BY <2>1 DEF ReadTooLong, ReadEof, ProgressLost, AfterLine
  <2>4. QED
    BY <1>pc, <1>q, <2>2, <2>3
<1>6. CASE \E s \in Streams : ProgressWritten(s)
  BY <1>6, WrittenProgress
<1>7. CASE \E s \in Streams : Check(s)
  <2>1. PICK s \in Streams : Check(s)
    BY <1>7
  <2>2. UNCHANGED <<kind, callback, row>> /\ reader[s].pc = "checking"
        /\ (reader' = ReadersLeft \/ reader' = [reader EXCEPT ![s].pc = "reading"])
    BY <2>1 DEF Check, Stop
  <2>3. QED
    BY <1>left, <1>pc, <1>q, <2>2
<1>8. CASE InnerTimeout \/ Poll
  <2>1. UNCHANGED <<kind, callback, row>> /\ (reader' = ReadersLeft \/ reader' = reader)
    BY <1>8 DEF InnerTimeout, Poll, Stop
  <2>2. QED
    BY <1>left, <1>q, <2>1
<1>9. CASE PipelineTimeout \/ JobTimeout
  <2>1. UNCHANGED <<kind, callback, row>>
        /\ \/ reader' = reader
           \/ reader' = [s \in Streams |-> [reader[s] EXCEPT !.pc = "off"]]
    BY <1>9 DEF PipelineTimeout, JobTimeout
  <2>2. QED
    BY <1>q, <2>1, ReadersOff
<1>10. QED
  BY <1>1, <1>2, <1>3, <1>4, <1>5, <1>6, <1>7, <1>8, <1>9 DEF Next, Coroutines

\* For every renderer with one reader, and any lines, the progress of the row never
\* goes back once a report has replaced the 30 of the stage.
THEOREM ProgressNeverGoesBack == Spec => ProgressForward
<1>1. Init => Progress
  <2>1. Interval \in Nat
    BY ProcessAssumption
  <2>2. QED
    BY <2>1 DEF Init, Progress, ReportAhead, None, Streams
<1>2. Init => IInv
  BY InitIInv
<1>3. IInv /\ [Next]_vars => IInv'
  BY NextIInv
<1>4. IInv /\ Progress /\ [Next]_vars =>
          /\ Progress'
          /\ [kind # "hyperframes" /\ row.progress # 30 => row'.progress >= row.progress]_vars
  BY NextProgress
<1>5. QED
  BY <1>1, <1>2, <1>3, <1>4, PTL DEF Spec, ProgressForward
-----------------------------------------------------------------------------
(* Time.  The clock goes on only when no coroutine has anything to do, so that *)
(* every alarm is still ahead of it.                                           *)

Clocks ==
    /\ limit \in [inner : Nat, outer : Nat]
    /\ row \in [progress : Int, cancel : Nat \cup {None}]
    /\ faults \in Nat

\* Where the coroutine of a call that is not over is, by the clock.
OnTime ==
    Alive =>
        /\ main.pc = "spawn" => now = 0 /\ main.alarm = 0
        /\ main.pc \in {"watching", "stopping"} => child.pc # "none"
        /\ main.pc = "stopping" => now <= main.alarm /\ main.alarm <= now + Grace

\* The renderers that wait under a wait_for of their own.
WaitsOnTime ==
    Alive /\ kind # "hyperframes" =>
        /\ ~main.doomed /\ main.pc # "gathering"
        /\ now <= limit.outer /\ now <= limit.inner + Grace
        /\ main.pc \in {"spawn", "watching"} => now <= limit.inner
        /\ main.pc = "stopping" => main.alarm <= limit.inner + Grace

\* The renderer that polls: its alarm is the next poll, and after a cancel that
\* poll stops the child.
PollsOnTime ==
    kind = "hyperframes" =>
        /\ outcome = "raised" => main.pc = "logging"
        /\ Alive => now <= limit.outer + JobSlack
        /\ Alive /\ main.pc = "watching" => now <= main.alarm /\ main.alarm <= now + 1
        /\ Alive /\ row.cancel # None /\ faults = 0 =>
              /\ main.pc = "watching" => main.alarm <= row.cancel + 1
              /\ main.pc = "stopping" => main.alarm <= row.cancel + 1 + Grace

Time == Clocks /\ OnTime /\ WaitsOnTime /\ PollsOnTime

\* What the constants of the clock are.
LEMMA Times == /\ Grace \in Nat /\ JobSlack \in Nat
               /\ Inner \subseteq Nat /\ Outer \subseteq Nat
  BY ProcessAssumption

\* At first the clock stands at zero.
LEMMA InitTime == Init => Time
<1> SUFFICES ASSUME Init PROVE Time
  OBVIOUS
<1>1. limit \in [inner : Nat, outer : Nat] /\ now = 0 /\ faults = 0
  BY Times DEF Init
<1>2. Clocks
  BY <1>1 DEF Init, Clocks, None
<1>3. main.pc = "spawn" /\ main.alarm = 0 /\ ~main.doomed /\ row.cancel = None
      /\ outcome = "none"
  BY DEF Init
<1>4. OnTime /\ WaitsOnTime /\ PollsOnTime
  BY <1>1, <1>3, Times DEF OnTime, WaitsOnTime, PollsOnTime
<1>5. QED
  BY <1>2, <1>4 DEF Time

\* Steps of the child, the readers and the database, while the coroutine sleeps.
LEMMA QuietTime ==
    ASSUME Time, UNCHANGED <<kind, limit, main, outcome, now>>,
           row' \in [progress : Int, cancel : Nat \cup {None}], row'.cancel = row.cancel,
           faults' \in {faults, faults + 1},
           child.pc # "none" => child'.pc # "none"
    PROVE  Time'
<1>1. faults' \in Nat /\ (faults' = 0 => faults = 0)
  BY DEF Time, Clocks
<1>2. Clocks'
  BY <1>1 DEF Time, Clocks
<1>3. OnTime' /\ WaitsOnTime' /\ PollsOnTime'
  BY <1>1 DEF Time, OnTime, WaitsOnTime, PollsOnTime, Alive
<1>4. QED
  BY <1>2, <1>3 DEF Time

\* Steps that end the call: nothing is due any more.
LEMMA EndTime ==
    ASSUME Time, UNCHANGED <<kind, limit, row>>, outcome' # "none",
           faults' \in {faults, faults + 1},
           kind = "hyperframes" /\ outcome' = "raised" => main'.pc = "logging"
    PROVE  Time'
<1>1. Clocks'
  BY DEF Time, Clocks
<1>2. OnTime' /\ WaitsOnTime' /\ PollsOnTime'
  BY DEF OnTime, WaitsOnTime, PollsOnTime, Alive
<1>3. QED
  BY <1>1, <1>2 DEF Time

\* _terminate_process is begun at the alarm of the watch or before it.
LEMMA StopTime ==
    ASSUME IInv, Time, Alive, main.pc = "watching", NEW why, Stop(why),
           faults' = faults
    PROVE  Time'
<1>0. /\ main \in MainRec /\ now \in Nat /\ row.cancel \in Nat \cup {None}
      /\ limit.inner \in Nat /\ limit.outer \in Nat /\ main.alarm \in Int
  BY DEF IInv, Types, Time, Clocks, MainRec
<1>1. UNCHANGED <<kind, limit, child, row, outcome, now>>
  BY DEF Stop
<1>2. main'.pc = "stopping" /\ main'.alarm = now + Grace /\ main'.doomed = main.doomed
  BY <1>0 DEF Stop, MainRec
<1>3. Clocks'
  BY <1>1 DEF Time, Clocks
<1>4. OnTime'
  BY <1>0, <1>1, <1>2, Times DEF Time, OnTime, Alive
<1>5. WaitsOnTime'
  BY <1>0, <1>1, <1>2, Times DEF Time, WaitsOnTime, Alive
<1>6. PollsOnTime'
  BY <1>0, <1>1, <1>2, Times DEF Time, PollsOnTime, Alive, None
<1>7. QED
  BY <1>3, <1>4, <1>5, <1>6 DEF Time

\* The coroutine comes to a place where it waits for no alarm of its own.
LEMMA PlaceTime ==
    ASSUME IInv, Time, Alive, UNCHANGED <<kind, limit, row, outcome, now, faults>>,
           NEW m \in MainRec, main' = m, m.pc \in {"gathering", "logging"},
           kind # "hyperframes" => m.pc = "logging" /\ m.doomed = main.doomed
    PROVE  Time'
<1>1. Clocks'
  BY DEF Time, Clocks
<1>2. OnTime' /\ WaitsOnTime' /\ PollsOnTime'
  BY DEF Time, OnTime, WaitsOnTime, PollsOnTime, Alive
<1>3. QED
  BY <1>1, <1>2 DEF Time

\* The watch begins at once.
LEMMA SpawnTime ==
    ASSUME IInv, Time, Spawn
    PROVE  Time'
<1>0. main \in MainRec /\ main.pc = "spawn" /\ outcome = "none" /\ now = 0
      /\ main.alarm = 0 /\ row.cancel \in Nat \cup {None} /\ limit.inner \in Nat
      /\ UNCHANGED <<kind, limit, row, outcome, faults, now>>
  BY DEF Spawn, IInv, Types, ChildKnown, Time, Clocks, OnTime, Alive
<1>1. main'.pc = "watching" /\ main'.alarm = 0 /\ main'.doomed = main.doomed
      /\ child'.pc = "running"
  BY <1>0 DEF Spawn, MainRec
<1>2. Clocks'
  BY <1>0 DEF Time, Clocks
<1>3. OnTime' /\ WaitsOnTime'
  BY <1>0, <1>1, Times DEF Time, OnTime, WaitsOnTime, Alive
<1>4. PollsOnTime'
  <2>1. row.cancel # None => row.cancel + 1 >= 0
    BY <1>0, Times DEF Time, Clocks, None
  <2>2. QED
    BY <1>0, <1>1, <2>1, Times DEF Time, PollsOnTime, Alive
<1>5. QED
  BY <1>2, <1>3, <1>4 DEF Time

\* A poll: it sees the child dead, stops it, or sleeps again, which it does over a
\* flagged row only if the check has failed.
LEMMA PollTime ==
    ASSUME IInv, Time, Alive, Poll
    PROVE  Time'
<1>0. main \in MainRec /\ main.pc = "watching" /\ kind = "hyperframes" /\ now \in Nat
      /\ limit \in [inner : Nat, outer : Nat] /\ faults \in Nat
  BY DEF Poll, IInv, Types, Time, Clocks
<1>1. CASE main' = [main EXCEPT !.pc = "gathering"]
           /\ UNCHANGED <<kind, limit, row, outcome, now, faults>>
  <2>1. main' \in MainRec /\ main'.pc = "gathering"
    BY <1>0, <1>1 DEF MainRec
  <2>2. QED
    BY <1>0, <1>1, <2>1, PlaceTime
<1>2. CASE \E why \in {"timeout", "cancelled"} : Stop(why) /\ UNCHANGED faults
  BY <1>0, <1>2, StopTime
<1>3. CASE /\ IF row.cancel = None THEN UNCHANGED faults ELSE Fault
           /\ main' = [main EXCEPT !.alarm = now + 1]
           /\ UNCHANGED <<kind, limit, child, row, outcome, now>>
  <2>1. main'.pc = "watching" /\ main'.alarm = now + 1 /\ main'.doomed = main.doomed
    BY <1>0, <1>3 DEF MainRec
  <2>2. faults' \in Nat /\ (row.cancel # None => faults' # 0)
    BY <1>0, <1>3 DEF Fault
  <2>3. Clocks'
    BY <1>3, <2>2 DEF Time, Clocks
  <2>4. OnTime' /\ WaitsOnTime'
    BY <1>0, <1>3, <2>1 DEF Time, OnTime, WaitsOnTime, Alive
  <2>5. PollsOnTime'
    BY <1>0, <1>3, <2>1, <2>2 DEF Time, PollsOnTime, Alive
  <2>6. QED
    BY <2>3, <2>4, <2>5 DEF Time
<1>4. QED
  BY <1>1, <1>2, <1>3 DEF Poll, Stop

\* A flag is set now: the next poll is at most one interval away, and a grace period
\* that runs has begun before.
LEMMA CancelTime ==
    ASSUME IInv, Time, UserCancels
    PROVE  Time'
<1>0. now \in Nat /\ main \in MainRec /\ row \in [progress : Int, cancel : Nat \cup {None}]
      /\ UNCHANGED <<kind, limit, child, main, outcome, faults, now>>
      /\ row' = [row EXCEPT !.cancel = now]
  BY DEF IInv, Types, Time, Clocks, UserCancels
<1>1. row' \in [progress : Int, cancel : Nat \cup {None}] /\ row'.cancel = now
  BY <1>0
<1>2. Clocks'
  BY <1>0, <1>1 DEF Time, Clocks
<1>3. OnTime' /\ WaitsOnTime'
  BY <1>0 DEF Time, OnTime, WaitsOnTime, Alive
<1>4. main.alarm \in Int
  BY <1>0 DEF MainRec
<1>5. PollsOnTime'
  BY <1>0, <1>1, <1>4, Times DEF Time, OnTime, PollsOnTime, Alive
<1>6. QED
  BY <1>2, <1>3, <1>5 DEF Time

\* The clock goes on: nothing has rung, so every alarm is still ahead.
LEMMA TickTime ==
    ASSUME IInv, Time, Tick
    PROVE  Time'
<1>0. /\ main \in MainRec /\ now \in Nat /\ main.alarm \in Int /\ child \in ChildRec
      /\ limit.inner \in Nat /\ limit.outer \in Nat
  BY DEF IInv, Types, Time, Clocks, MainRec
<1>1. Alive /\ now' = now + 1
      /\ UNCHANGED <<kind, limit, child, main, row, outcome, faults>>
  BY DEF Tick
<1>2. ~Runnable /\ ~ObeysNow
  BY DEF Tick
<1>3. /\ main.pc \notin {"spawn", "logging"}
      /\ main.doomed => now < limit.outer + JobSlack
      /\ ~main.doomed => now < limit.outer
      /\ main.pc = "watching" /\ kind = "hyperframes" => now < main.alarm
      /\ main.pc = "watching" /\ kind # "hyperframes" => now < limit.inner
  BY <1>0, <1>1, <1>2, Times DEF Runnable, JobExpires, MainRec
<1>4. main.pc = "stopping" => now < main.alarm
  <2>1. main.pc = "stopping" => child.pc = "running"
    BY <1>0, <1>1, <1>2 DEF Runnable, Time, OnTime, ChildRec
  <2>2. QED
    BY <1>0, <1>1, <1>2, <2>1 DEF Runnable, ObeysNow
<1>5. Clocks'
  BY <1>1 DEF Time, Clocks
<1>6. OnTime'
  BY <1>0, <1>1, <1>3, <1>4, Times DEF Time, OnTime, Alive
<1>7. WaitsOnTime'
  <2>1. CASE kind = "hyperframes"
    BY <1>1, <2>1 DEF WaitsOnTime
  <2>2. CASE kind # "hyperframes"
    <3>1. ~main.doomed /\ main.pc \in {"watching", "stopping"}
      BY <1>0, <1>1, <1>3, <2>2 DEF Time, WaitsOnTime, MainRec
    <3>2. QED
      BY <1>0, <1>1, <1>3, <1>4, <2>2, <3>1, Times DEF Time, WaitsOnTime, Alive
  <2>3. QED
    BY <2>1, <2>2
<1>8. PollsOnTime'
  BY <1>0, <1>1, <1>3, <1>4, Times DEF Time, PollsOnTime, Alive
<1>9. QED
  BY <1>5, <1>6, <1>7, <1>8 DEF Time

\* Every step keeps the times.
LEMMA NextTime ==
    ASSUME IInv, Time, [Next]_vars
    PROVE  Time'
<1>0. /\ main \in MainRec /\ row \in [progress : Int, cancel : Nat \cup {None}]
      /\ faults \in Nat
  BY DEF IInv, Types, Time, Clocks
<1>1. CASE \/ \E s \in Streams, line \in Lines : ChildWrites(s, line)
           \/ \E code \in {"zero", "bad"} : ChildExits(code)
           \/ HelperExits
  <2>1. UNCHANGED <<kind, limit, main, outcome, now, row, faults>>
    BY <1>1 DEF ChildWrites, ChildExits, HelperExits
  <2>2. child'.pc # "none"
    BY <1>1 DEF ChildWrites, ChildExits, HelperExits, IInv, Types, ChildRec
  <2>3. QED
    BY <1>0, <2>1, <2>2, QuietTime
<1>2. CASE \E s \in Streams : ReadLine(s) \/ ReadEof(s) \/ ProgressWritten(s) \/ ProgressLost(s)
  <2>1. UNCHANGED <<kind, limit, main, outcome, now, child>> /\ faults' \in {faults, faults + 1}
    BY <1>2 DEF ReadLine, ReadEof, ProgressWritten, ProgressLost, Fault
  <2>2. row' \in [progress : Int, cancel : Nat \cup {None}] /\ row'.cancel = row.cancel
    BY <1>0, <1>2
    DEF ReadLine, ReadEof, ProgressWritten, ProgressLost, IInv, Types, ReaderRec
  <2>3. QED
    BY <2>1, <2>2, QuietTime
<1>3. CASE \E s \in Streams : ReadTooLong(s)
  <2>1. UNCHANGED <<kind, limit, main, row, faults, now, child>>
        /\ IF kind = "hyperframes" THEN outcome' = outcome ELSE outcome' = "raised"
    BY <1>3 DEF ReadTooLong
  <2>2. CASE kind = "hyperframes"
    BY <1>0, <2>1, <2>2, QuietTime
  <2>3. CASE kind # "hyperframes"
    BY <2>1, <2>3, EndTime
  <2>4. QED
    BY <2>2, <2>3
<1>4. CASE \E s \in Streams : Check(s)
  <2>1. Alive /\ main.pc = "watching"
    BY <1>4 DEF Check, IInv, ReadersWatch, Alive
  <2>2. CASE Stop("cancelled") /\ UNCHANGED faults
    BY <2>1, <2>2, StopTime
  <2>3. CASE UNCHANGED <<kind, limit, main, outcome, now, child, row>>
             /\ faults' \in {faults, faults + 1}
    BY <1>0, <2>3, QuietTime
  <2>4. QED
    BY <1>4, <2>2, <2>3 DEF Check, Fault
<1>5. CASE InnerTimeout
  BY <1>5, StopTime DEF InnerTimeout
<1>6. CASE Poll
  <2>1. CASE Alive
    BY <1>6, <2>1, PollTime
  <2>2. CASE ~Alive
    <3>1. UNCHANGED <<kind, limit, row, outcome>> /\ faults' \in {faults, faults + 1}
      BY <1>6 DEF Poll, Stop, Fault
    <3>2. main.pc = "watching" /\ kind = "hyperframes"
      BY <1>6 DEF Poll
    <3>3. outcome # "raised"
      BY <3>2 DEF Time, PollsOnTime
    <3>4. QED
      BY <2>2, <3>1, <3>3, EndTime DEF Alive
  <2>3. QED
    BY <2>1, <2>2
<1>7. CASE Spawn
  BY <1>7, SpawnTime
<1>8. CASE BinaryMissing \/ Finished \/ Kill \/ (Gathered /\ ~main.doomed)
  <2>1. Alive /\ UNCHANGED <<kind, limit, row, outcome, now, faults>>
    BY <1>8 DEF BinaryMissing, Finished, Kill, Gathered, Alive, IInv, ChildKnown
  <2>2. main'.pc \in {"gathering", "logging"} /\ main' \in MainRec
        /\ main'.doomed = main.doomed
    BY <1>0, <1>8 DEF BinaryMissing, Finished, Kill, Gathered, AfterStop, MainRec
  <2>3. kind # "hyperframes" => main'.pc = "logging"
    BY <1>0, <1>8 DEF BinaryMissing, Finished, Kill, Gathered, AfterStop, MainRec
  <2>4. QED
    BY <2>1, <2>2, <2>3, PlaceTime
<1>9. CASE (Gathered /\ main.doomed) \/ Conclude \/ LogFails \/ JobTimeout
  <2>1. UNCHANGED <<kind, limit, row, main>> /\ faults' \in {faults, faults + 1}
        /\ outcome' # "none" /\ (outcome' = "raised" => main.pc = "logging")
    BY <1>9 DEF Gathered, Conclude, LogFails, JobTimeout, Fault
  <2>2. QED
    BY <2>1, EndTime
<1>10. CASE PipelineTimeout
  <2>1. CASE kind = "hyperframes" /\ main.pc \in {"watching", "stopping"}
    <3>1. main' = [main EXCEPT !.pc = "gathering", !.doomed = TRUE] /\ Alive
          /\ UNCHANGED <<kind, limit, row, outcome, now, faults>>
      BY <1>10, <2>1 DEF PipelineTimeout
    <3>2. main' \in MainRec /\ main'.pc = "gathering"
      BY <1>0, <3>1 DEF MainRec
    <3>3. QED
      BY <2>1, <3>1, <3>2, PlaceTime
  <2>2. CASE ~(kind = "hyperframes" /\ main.pc \in {"watching", "stopping"})
    <3>1. outcome' = "abandoned" /\ UNCHANGED <<kind, limit, row, faults>>
      BY <1>10, <2>2 DEF PipelineTimeout
    <3>2. QED
      BY <3>1, EndTime
  <2>3. QED
    BY <2>1, <2>2
<1>11. CASE Rest \/ UNCHANGED vars
  BY <1>0, <1>11, QuietTime DEF Rest, vars
<1>12. QED
  BY <1>1, <1>2, <1>3, <1>4, <1>5, <1>6, <1>7, <1>8, <1>9, <1>10, <1>11, CancelTime,
     TickTime
  DEF Next, Coroutines

\* The times hold in every reachable state.
LEMMA TimeInvariance == Spec => []Time
<1>1. Init => IInv /\ Time
  BY InitIInv, InitTime
<1>2. IInv /\ [Next]_vars => IInv'
  BY NextIInv
<1>3. IInv /\ Time /\ [Next]_vars => Time'
  BY NextTime
<1>4. QED
  BY <1>1, <1>2, <1>3, PTL DEF Spec

\* For any limits, whatever the child writes, ignores or leaves behind: a coroutine is
\* over by its own timeout and the grace period or by the pipeline's timeout;
\* hyperframes by the timeout of the job.
THEOREM EveryCallEndsInTime == Spec => []EndsInTime
<1>1. Time => EndsInTime
  <2>1. ASSUME Time, Alive PROVE now <= Latest
    BY <2>1, Times DEF Time, Clocks, WaitsOnTime, PollsOnTime, Latest
  <2>2. QED
    BY <2>1 DEF EndsInTime
<1>2. QED
  BY <1>1, TimeInvariance, PTL

\* For any limits: the poll of hyperframes after a cancel stops the child, so that it
\* is gone a poll and a grace period later, unless a check of the flag has failed.
THEOREM CancelEndsInTime == Spec => []CancelStopsInTime
<1>1. IInv /\ Time => CancelStopsInTime
  <2> SUFFICES ASSUME IInv, Time, kind = "hyperframes", row.cancel # None, faults = 0,
                      ~main.doomed, child.pc = "running", outcome # "abandoned"
               PROVE  now <= row.cancel + 1 + Grace
    BY DEF CancelStopsInTime
  <2>0. /\ now \in Nat /\ main \in MainRec /\ main.alarm \in Int
        /\ row.cancel \in Nat \cup {None}
    BY DEF IInv, Types, Time, Clocks, MainRec
  <2>1. Alive
    BY DEF IInv, Types, Verdict, ChildKnown, Time, PollsOnTime, Alive, Chosen, Ended
  <2>2. main.pc \in {"watching", "stopping"}
    BY <2>0 DEF IInv, ChildKnown, MainRec
  <2>3. QED
    BY <2>0, <2>1, <2>2, Times DEF Time, OnTime, PollsOnTime, None
<1>2. QED
  BY <1>1, ProcessInvariance, TimeInvariance, PTL
=============================================================================
