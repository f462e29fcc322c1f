------------------------- MODULE RawCapture_proofs -------------------------
(***************************************************************************)
(* Proofs about live capture, for any requests, faults and restarts: the   *)
(* types, and the four safety properties of RawCapture, from an inductive  *)
(* invariant of five parts.                                                *)
(***************************************************************************)
EXTENDS RawCapture, SequenceTheorems, FiniteSetTheorems, TLAPS

-----------------------------------------------------------------------------
(* Base: types, the processor's mutex, what a stop leaves, and the tail.   *)

\* Where a request is while it holds Processor.mu.
Inside == {"append", "writing", "written", "rollback", "append_failed", "store_sealed"}
            \cup Projections

\* No line is corrupt, and the store counts the lines of the file.
Types ==
    /\ lines \in Seq(Record)
    /\ tail \in {"clean", "torn", "spoilt"} /\ prior \in {"clean", "torn", "spoilt"}
    /\ sequence = Len(lines) /\ base \in 0..sequence
    /\ sealed \in BOOLEAN /\ closed \in BOOLEAN
    /\ holder \in Request \cup {Nobody}
    /\ projected \in [Projections -> Seq(Nat)]
    /\ pc \in [Request -> PCs] /\ status \in [Request -> Statuses]
    /\ stopping \in BOOLEAN /\ listening \in BOOLEAN /\ main \in Mains
    /\ faults \in 0..MaxFaults /\ runs \in 1..MaxRuns

\* Whoever is inside holds the mutex, and whoever holds it is inside.
Mutex ==
    /\ \A r \in Request : pc[r] \in Inside => holder = r
    /\ holder \in Request => pc[holder] \in Inside

\* Nobody is inside once the server has drained, closed or died.
Stopping ==
    /\ main # "serving" => ~listening
    /\ ~Up \/ main \in {"wait", "close", "stopped"} => \A r \in Request : pc[r] \in {"new", "done"}
    /\ closed => main \in {"stopped", "refused"}
    /\ runs = 1 /\ Up => \A r \in Request : status[r] # "cut"

\* A tail that is not clean is being written, or the store is sealed.
CleanTail ==
    /\ \A r \in Request :
          /\ pc[r] = "append" => tail = "clean"
          /\ pc[r] \in {"writing", "rollback"} => tail = "torn" /\ prior = "clean"
    /\ Up /\ tail # "clean" => sealed \/ \E r \in Request : pc[r] \in {"writing", "rollback"}

Base == Types /\ Mutex /\ Stopping /\ CleanTail

\* The first process starts with an empty file.
LEMMA BaseInit == Init => Base
<1> SUFFICES ASSUME Init PROVE Base
  OBVIOUS
<1> USE ConstantsAssumption
<1>1. Types
  <2>1. <<>> \in Seq(Record) /\ Len(<<>>) = 0 /\ <<>> \in Seq(Nat)
    OBVIOUS
  <2>2. projected \in [Projections -> Seq(Nat)]
    BY <2>1 DEF Init
  <2>3. pc \in [Request -> PCs] /\ status \in [Request -> Statuses] /\ main \in Mains
    BY DEF Init, PCs, Statuses, Mains
  <2>4. sequence = Len(lines) /\ base \in 0..sequence
    BY <2>1 DEF Init
  <2>5. faults \in 0..MaxFaults /\ runs \in 1..MaxRuns
    BY DEF Init
  <2>6. QED
    BY <2>1, <2>2, <2>3, <2>4, <2>5 DEF Types, Init
<1>2. Mutex /\ Stopping /\ CleanTail
  BY DEF Mutex, Inside, Stopping, CleanTail, Init, Projections, Up
<1>3. QED BY <1>1, <1>2 DEF Base

\* Every step keeps the types; a line is whole because its tail was clean.
LEMMA TypesNext == Base /\ [Next]_vars => Types'
<1> SUFFICES ASSUME Base, [Next]_vars PROVE Types'
  OBVIOUS
<1> USE ConstantsAssumption DEF Types, PCs, Handling, Uncounted, Projections,
    Statuses, Mains, Goto, Answer, vars, file, store, processor, gate, process, bounds
<1>1. ASSUME NEW r \in Request, Arrive(r) PROVE Types'
  BY <1>1 DEF Base, Record, Up, Arrive
<1>2. ASSUME NEW r \in Request, Enter(r) PROVE Types'
  <2>1. pc' \in [Request -> PCs] /\ status' \in [Request -> Statuses]
    BY <1>2 DEF Base, Enter
  <2>2. QED BY <1>2, <2>1 DEF Base, Enter
<1>3. ASSUME NEW r \in Request, ReadBody(r) PROVE Types'
  <2>1. pc' \in [Request -> PCs] /\ status' \in [Request -> Statuses]
    BY <1>3 DEF Base, ReadBody
  <2>2. QED BY <1>3, <2>1 DEF Base, ReadBody
<1>4. ASSUME NEW r \in Request, Respond(r) PROVE Types'
  BY <1>4 DEF Base, Record, Up, Respond
<1>5. ASSUME NEW r \in Request, Flush(r) PROVE Types'
  BY <1>5 DEF Base, Record, Up, Flush
<1>6. ASSUME NEW r \in Request, Take(r) PROVE Types'
  <2>1. pc' \in [Request -> PCs] /\ status' \in [Request -> Statuses] /\ holder' \in Request \cup {Nobody}
    BY <1>6 DEF Base, Take
  <2>2. QED BY <1>6, <2>1 DEF Base, Record, Up, Take
<1>7. ASSUME NEW r \in Request, OpenFails(r) PROVE Types'
  BY <1>7 DEF Base, Record, Up, OpenFails
<1>8. ASSUME NEW r \in Request, Write(r) PROVE Types'
  BY <1>8 DEF Base, Record, Up, Write
<1>9. ASSUME NEW r \in Request, WriteAll(r) PROVE Types'
  <2>1. tail = "torn" /\ sequence = Len(lines)
    BY <1>9 DEF Base, CleanTail, WriteAll
  <2>2. [seq |-> sequence + 1, of |-> r] \in Record
    BY <2>1 DEF Base, Record
  <2>3. lines' \in Seq(Record) /\ sequence' = Len(lines') /\ base' \in 0..sequence'
    BY <1>9, <2>1, <2>2 DEF Base, WriteAll
  <2>4. QED BY <1>9, <2>3 DEF Base, WriteAll
<1>10. ASSUME NEW r \in Request, WriteShort(r) PROVE Types'
  BY <1>10 DEF Base, Record, Up, WriteShort
<1>11. ASSUME NEW r \in Request, RollBack(r) PROVE Types'
  BY <1>11 DEF Base, Record, Up, RollBack
<1>12. ASSUME NEW r \in Request, RollBackFails(r) PROVE Types'
  BY <1>12 DEF Base, Record, Up, RollBackFails
<1>13. ASSUME NEW r \in Request, RawFailure(r) PROVE Types'
  BY <1>13 DEF Base, Record, Up, RawFailure
<1>14. ASSUME NEW r \in Request, Accepted(r) PROVE Types'
  BY <1>14 DEF Base, Record, Up, Accepted
<1>15. ASSUME NEW r \in Request, NEW fails \in BOOLEAN, Project(r, fails) PROVE Types'
  <2>1. sequence \in Nat /\ pc[r] \in Projections
    BY <1>15 DEF Base, Project
  <2>2. projected' \in [Projections -> Seq(Nat)]
    BY <1>15, <2>1 DEF Base, Project
  <2>3. pc' \in [Request -> PCs] /\ status' \in [Request -> Statuses]
    BY <1>15 DEF Base, Project, AfterProjection
  <2>4. QED BY <1>15, <2>2, <2>3 DEF Base, Project
<1>16. CASE BeginShutdown
  BY <1>16 DEF Base, Record, Up, BeginShutdown
<1>17. CASE ShutdownDone
  BY <1>17 DEF Base, Record, Up, ShutdownDone
<1>18. CASE ShutdownFails
  BY <1>18 DEF Base, Record, Up, ShutdownFails
<1>19. CASE ShutGate
  BY <1>19 DEF Base, Record, Up, ShutGate
<1>20. CASE Drained
  BY <1>20 DEF Base, Record, Up, Drained
<1>21. CASE Retry
  BY <1>21 DEF Base, Record, Up, Retry
<1>22. CASE CloseStore
  BY <1>22 DEF Base, Record, Up, CloseStore
<1>23. CASE Kill
  BY <1>23 DEF Base, Record, Up, Kill
<1>24. CASE Reopen
  <2>1. Len(lines) \in Nat /\ <<>> \in Seq(Nat)
    BY DEF Base
  <2>2. projected' \in [Projections -> Seq(Nat)]
    BY <1>24, <2>1 DEF Reopen
  <2>3. sequence' = Len(lines') /\ base' \in 0..sequence'
    BY <1>24, <2>1 DEF Base, Reopen
  <2>4. runs' \in 1..MaxRuns /\ main' \in Mains
    BY <1>24 DEF Base, Reopen
  <2>5. QED BY <1>24, <2>2, <2>3, <2>4 DEF Base, Reopen
<1>25. CASE UNCHANGED vars
  BY <1>25 DEF Base, Record, Up
<1>26. QED
  BY <1>1, <1>2, <1>3, <1>4, <1>5, <1>6, <1>7, <1>8, <1>9, <1>10, <1>11, <1>12, <1>13,
      <1>14, <1>15, <1>16, <1>17, <1>18, <1>19, <1>20, <1>21, <1>22, <1>23, <1>24, <1>25
      DEF Next, Serve, Shutdown

\* Every step keeps the mutual exclusion.
LEMMA MutexNext == Base /\ [Next]_vars => Mutex'
<1> SUFFICES ASSUME Base, [Next]_vars PROVE Mutex'
  OBVIOUS
<1> USE ConstantsAssumption DEF Mutex, PCs, Handling, Uncounted, Projections, Inside,
    Up, Goto, Answer, vars, file, store, processor, gate, process, bounds
<1>1. ASSUME NEW r \in Request, Arrive(r) PROVE Mutex'
  BY <1>1 DEF Base, Types, Arrive
<1>2. ASSUME NEW r \in Request, Enter(r) PROVE Mutex'
  BY <1>2 DEF Base, Types, Enter
<1>3. ASSUME NEW r \in Request, ReadBody(r) PROVE Mutex'
  BY <1>3 DEF Base, Types, ReadBody
<1>4. ASSUME NEW r \in Request, Respond(r) PROVE Mutex'
  BY <1>4 DEF Base, Types, Respond
<1>5. ASSUME NEW r \in Request, Flush(r) PROVE Mutex'
  BY <1>5 DEF Base, Types, Flush
<1>6. ASSUME NEW r \in Request, Take(r) PROVE Mutex'
  BY <1>6 DEF Base, Types, Take
<1>7. ASSUME NEW r \in Request, OpenFails(r) PROVE Mutex'
  BY <1>7 DEF Base, Types, OpenFails
<1>8. ASSUME NEW r \in Request, Write(r) PROVE Mutex'
  BY <1>8 DEF Base, Types, Write
<1>9. ASSUME NEW r \in Request, WriteAll(r) PROVE Mutex'
  BY <1>9 DEF Base, Types, WriteAll
<1>10. ASSUME NEW r \in Request, WriteShort(r) PROVE Mutex'
  BY <1>10 DEF Base, Types, WriteShort
<1>11. ASSUME NEW r \in Request, RollBack(r) PROVE Mutex'
  BY <1>11 DEF Base, Types, RollBack
<1>12. ASSUME NEW r \in Request, RollBackFails(r) PROVE Mutex'
  BY <1>12 DEF Base, Types, RollBackFails
<1>13. ASSUME NEW r \in Request, RawFailure(r) PROVE Mutex'
  BY <1>13 DEF Base, Types, RawFailure
<1>14. ASSUME NEW r \in Request, Accepted(r) PROVE Mutex'
  BY <1>14 DEF Base, Types, Accepted
<1>15. ASSUME NEW r \in Request, NEW fails \in BOOLEAN, Project(r, fails) PROVE Mutex'
  BY <1>15 DEF Base, Types, Project, AfterProjection
<1>16. CASE BeginShutdown
  BY <1>16 DEF Base, Types, BeginShutdown
<1>17. CASE ShutdownDone
  BY <1>17 DEF Base, Types, ShutdownDone
<1>18. CASE ShutdownFails
  BY <1>18 DEF Base, Types, ShutdownFails
<1>19. CASE ShutGate
  BY <1>19 DEF Base, Types, ShutGate
<1>20. CASE Drained
  BY <1>20 DEF Base, Types, Drained
<1>21. CASE Retry
  BY <1>21 DEF Base, Types, Retry
<1>22. CASE CloseStore
  BY <1>22 DEF Base, Types, CloseStore
<1>23. CASE Kill
  BY <1>23 DEF Base, Types, Kill
<1>24. CASE Reopen
  BY <1>24 DEF Base, Types, Reopen
<1>25. CASE UNCHANGED vars
  BY <1>25 DEF Base, Types
<1>26. QED
  BY <1>1, <1>2, <1>3, <1>4, <1>5, <1>6, <1>7, <1>8, <1>9, <1>10, <1>11, <1>12, <1>13,
      <1>14, <1>15, <1>16, <1>17, <1>18, <1>19, <1>20, <1>21, <1>22, <1>23, <1>24, <1>25
      DEF Next, Serve, Shutdown

\* Every step of shutdown, kill and restart keeps what a stop leaves.
LEMMA StoppingNext == Base /\ [Next]_vars => Stopping'
<1> SUFFICES ASSUME Base, [Next]_vars PROVE Stopping'
  OBVIOUS
<1> USE ConstantsAssumption DEF Stopping, PCs, Handling, Uncounted, Projections, Up,
    Mains, Goto, Answer, vars, file, store, processor, gate, process, bounds
<1>1. ASSUME NEW r \in Request, Arrive(r) PROVE Stopping'
  BY <1>1 DEF Base, Types, Arrive
<1>2. ASSUME NEW r \in Request, Enter(r) PROVE Stopping'
  BY <1>2 DEF Base, Types, Enter
<1>3. ASSUME NEW r \in Request, ReadBody(r) PROVE Stopping'
  BY <1>3 DEF Base, Types, ReadBody
<1>4. ASSUME NEW r \in Request, Respond(r) PROVE Stopping'
  BY <1>4 DEF Base, Types, Respond
<1>5. ASSUME NEW r \in Request, Flush(r) PROVE Stopping'
  BY <1>5 DEF Base, Types, Flush
<1>6. ASSUME NEW r \in Request, Take(r) PROVE Stopping'
  BY <1>6 DEF Base, Types, Take
<1>7. ASSUME NEW r \in Request, OpenFails(r) PROVE Stopping'
  BY <1>7 DEF Base, Types, OpenFails
<1>8. ASSUME NEW r \in Request, Write(r) PROVE Stopping'
  BY <1>8 DEF Base, Types, Write
<1>9. ASSUME NEW r \in Request, WriteAll(r) PROVE Stopping'
  BY <1>9 DEF Base, Types, WriteAll
<1>10. ASSUME NEW r \in Request, WriteShort(r) PROVE Stopping'
  BY <1>10 DEF Base, Types, WriteShort
<1>11. ASSUME NEW r \in Request, RollBack(r) PROVE Stopping'
  BY <1>11 DEF Base, Types, RollBack
<1>12. ASSUME NEW r \in Request, RollBackFails(r) PROVE Stopping'
  BY <1>12 DEF Base, Types, RollBackFails
<1>13. ASSUME NEW r \in Request, RawFailure(r) PROVE Stopping'
  BY <1>13 DEF Base, Types, RawFailure
<1>14. ASSUME NEW r \in Request, Accepted(r) PROVE Stopping'
  BY <1>14 DEF Base, Types, Accepted
<1>15. ASSUME NEW r \in Request, NEW fails \in BOOLEAN, Project(r, fails) PROVE Stopping'
  BY <1>15 DEF Base, Types, Project, AfterProjection
<1>16. CASE BeginShutdown
  BY <1>16 DEF Base, Types, BeginShutdown
<1>17. CASE ShutdownDone
  BY <1>17 DEF Base, Types, ShutdownDone, Idle
<1>18. CASE ShutdownFails
  BY <1>18 DEF Base, Types, ShutdownFails
<1>19. CASE ShutGate
  BY <1>19 DEF Base, Types, ShutGate
<1>20. CASE Drained
  BY <1>20 DEF Base, Types, Drained
<1>21. CASE Retry
  BY <1>21 DEF Base, Types, Retry, Idle
<1>22. CASE CloseStore
  BY <1>22 DEF Base, Types, CloseStore
<1>23. CASE Kill
  BY <1>23 DEF Base, Types, Kill
<1>24. CASE Reopen
  BY <1>24 DEF Base, Types, Reopen
<1>25. CASE UNCHANGED vars
  BY <1>25 DEF Base, Types
<1>26. QED
  BY <1>1, <1>2, <1>3, <1>4, <1>5, <1>6, <1>7, <1>8, <1>9, <1>10, <1>11, <1>12, <1>13,
      <1>14, <1>15, <1>16, <1>17, <1>18, <1>19, <1>20, <1>21, <1>22, <1>23, <1>24, <1>25
      DEF Next, Serve, Shutdown

\* Every step keeps the tail clean, or the store sealed.
LEMMA TailNext == Base /\ [Next]_vars => CleanTail'
<1> SUFFICES ASSUME Base, [Next]_vars PROVE CleanTail'
  OBVIOUS
<1> USE ConstantsAssumption DEF CleanTail, PCs, Handling, Uncounted, Projections, Inside,
    Up, Goto, Answer, vars, file, store, processor, gate, process, bounds
<1>1. ASSUME NEW r \in Request, Arrive(r) PROVE CleanTail'
  BY <1>1 DEF Base, Types, Mutex, Stopping, Arrive
<1>2. ASSUME NEW r \in Request, Enter(r) PROVE CleanTail'
  BY <1>2 DEF Base, Types, Mutex, Stopping, Enter
<1>3. ASSUME NEW r \in Request, ReadBody(r) PROVE CleanTail'
  BY <1>3 DEF Base, Types, Mutex, Stopping, ReadBody
<1>4. ASSUME NEW r \in Request, Respond(r) PROVE CleanTail'
  BY <1>4 DEF Base, Types, Mutex, Stopping, Respond
<1>5. ASSUME NEW r \in Request, Flush(r) PROVE CleanTail'
  BY <1>5 DEF Base, Types, Mutex, Stopping, Flush
<1>6. ASSUME NEW r \in Request, Take(r) PROVE CleanTail'
  BY <1>6 DEF Base, Types, Mutex, Stopping, Take
<1>7. ASSUME NEW r \in Request, OpenFails(r) PROVE CleanTail'
  BY <1>7 DEF Base, Types, Mutex, Stopping, OpenFails
<1>8. ASSUME NEW r \in Request, Write(r) PROVE CleanTail'
  BY <1>8 DEF Base, Types, Mutex, Stopping, Write
<1>9. ASSUME NEW r \in Request, WriteAll(r) PROVE CleanTail'
  BY <1>9 DEF Base, Types, Mutex, Stopping, WriteAll
<1>10. ASSUME NEW r \in Request, WriteShort(r) PROVE CleanTail'
  BY <1>10 DEF Base, Types, Mutex, Stopping, WriteShort
<1>11. ASSUME NEW r \in Request, RollBack(r) PROVE CleanTail'
  BY <1>11 DEF Base, Types, Mutex, Stopping, RollBack
<1>12. ASSUME NEW r \in Request, RollBackFails(r) PROVE CleanTail'
  BY <1>12 DEF Base, Types, Mutex, Stopping, RollBackFails
<1>13. ASSUME NEW r \in Request, RawFailure(r) PROVE CleanTail'
  BY <1>13 DEF Base, Types, Mutex, Stopping, RawFailure
<1>14. ASSUME NEW r \in Request, Accepted(r) PROVE CleanTail'
  BY <1>14 DEF Base, Types, Mutex, Stopping, Accepted
<1>15. ASSUME NEW r \in Request, NEW fails \in BOOLEAN, Project(r, fails) PROVE CleanTail'
  BY <1>15 DEF Base, Types, Mutex, Stopping, Project, AfterProjection
<1>16. CASE BeginShutdown
  BY <1>16 DEF Base, Types, Mutex, Stopping, BeginShutdown
<1>17. CASE ShutdownDone
  BY <1>17 DEF Base, Types, Mutex, Stopping, ShutdownDone
<1>18. CASE ShutdownFails
  BY <1>18 DEF Base, Types, Mutex, Stopping, ShutdownFails
<1>19. CASE ShutGate
  BY <1>19 DEF Base, Types, Mutex, Stopping, ShutGate
<1>20. CASE Drained
  BY <1>20 DEF Base, Types, Mutex, Stopping, Drained
<1>21. CASE Retry
  BY <1>21 DEF Base, Types, Mutex, Stopping, Retry
<1>22. CASE CloseStore
  BY <1>22 DEF Base, Types, Mutex, Stopping, CloseStore
<1>23. CASE Kill
  BY <1>23 DEF Base, Types, Mutex, Stopping, Kill
<1>24. CASE Reopen
  BY <1>24 DEF Base, Types, Mutex, Stopping, Reopen
<1>25. CASE UNCHANGED vars
  BY <1>25 DEF Base, Types, Mutex, Stopping
<1>26. QED
  BY <1>1, <1>2, <1>3, <1>4, <1>5, <1>6, <1>7, <1>8, <1>9, <1>10, <1>11, <1>12, <1>13,
      <1>14, <1>15, <1>16, <1>17, <1>18, <1>19, <1>20, <1>21, <1>22, <1>23, <1>24, <1>25
      DEF Next, Serve, Shutdown

-----------------------------------------------------------------------------
(* Answered: what clients were told is what the file holds.                *)

\* Places after the line was written, and places with an answer.
Committed == {"written"} \cup Projections
Over == {"respond", "flush", "done"}
InFile(r) == \E i \in DOMAIN lines : lines[i].of = r

\* Whoever was told 200 has a line, whoever was told anything else none.
Told(r) ==
    /\ pc[r] \in Committed \/ (pc[r] \in Over /\ status[r] = "200") => InFile(r)
    /\ pc[r] \notin Committed \cup Over \/ (pc[r] \in Over /\ status[r] \notin {"200", "cut"})
          => ~InFile(r)

\* Lines are numbered, and no request has two.
Answered ==
    /\ \A i \in DOMAIN lines : lines[i].seq = i
    /\ \A i, j \in DOMAIN lines : lines[i].of = lines[j].of => i = j
    /\ \A r \in Request : Told(r)

\* Nobody has a line or an answer.
LEMMA AnsweredInit == Init => Answered
BY DEF Init, Answered, Told, InFile, Committed, Over, Projections

\* A step of one request that writes nothing concerns that request only.
LEMMA OneMoves ==
    ASSUME Answered, NEW r \in Request, lines' = lines, Told(r)',
           \A q \in Request \ {r} : pc'[q] = pc[q] /\ status'[q] = status[q]
    PROVE  Answered'
BY DEF Answered, Told, InFile

\* A request without a line may be told anything but that it has one.
LEMMA NotWritten ==
    ASSUME Answered, NEW r \in Request, lines' = lines,
           \A q \in Request \ {r} : pc'[q] = pc[q] /\ status'[q] = status[q],
           pc[r] \notin Committed \cup Over,
           pc'[r] \notin Committed \cup Over
              \/ (pc'[r] \in Over /\ pc'[r] \notin Committed /\ status'[r] \notin {"200", "cut"})
    PROVE  Answered'
<1>1. ~InFile(r)
  BY DEF Answered, Told
<1>2. ~InFile(r)'
  BY <1>1 DEF InFile
<1>3. Told(r)'
  BY <1>2 DEF Told
<1>4. QED BY <1>3, OneMoves

\* Every step keeps file and answers in agreement.
LEMMA AnsweredNext == Base /\ Answered /\ [Next]_vars => Answered'
<1> SUFFICES ASSUME Base, Answered, [Next]_vars PROVE Answered'
  OBVIOUS
<1> USE ConstantsAssumption DEF Answered, PCs, Handling, Uncounted, Projections,
    Committed, Over, Told, InFile, Goto, Answer, vars, file, store, processor, gate,
    process, bounds
<1>1. ASSUME NEW r \in Request, Arrive(r) PROVE Answered'
  BY <1>1 DEF Base, Types, Arrive
<1>2. ASSUME NEW r \in Request, Enter(r) PROVE Answered'
  <2>1. /\ lines' = lines
        /\ \A q \in Request \ {r} : pc'[q] = pc[q] /\ status'[q] = status[q]
    BY <1>2 DEF Base, Types, Enter
  <2>2. /\ pc[r] \notin Committed \cup Over
        /\ pc'[r] \notin Committed \cup Over
              \/ (pc'[r] \in Over /\ pc'[r] \notin Committed /\ status'[r] \notin {"200", "cut"})
    BY <1>2 DEF Base, Types, Enter
  <2>3. QED BY <2>1, <2>2, NotWritten
<1>3. ASSUME NEW r \in Request, ReadBody(r) PROVE Answered'
  <2>1. /\ lines' = lines
        /\ \A q \in Request \ {r} : pc'[q] = pc[q] /\ status'[q] = status[q]
    BY <1>3 DEF Base, Types, ReadBody
  <2>2. /\ pc[r] \notin Committed \cup Over
        /\ pc'[r] \notin Committed \cup Over
              \/ (pc'[r] \in Over /\ pc'[r] \notin Committed /\ status'[r] \notin {"200", "cut"})
    BY <1>3 DEF Base, Types, ReadBody
  <2>3. QED BY <2>1, <2>2, NotWritten
<1>4. ASSUME NEW r \in Request, Respond(r) PROVE Answered'
  BY <1>4 DEF Base, Types, Respond
<1>5. ASSUME NEW r \in Request, Flush(r) PROVE Answered'
  BY <1>5 DEF Base, Types, Flush
<1>6. ASSUME NEW r \in Request, Take(r) PROVE Answered'
  <2>1. /\ lines' = lines
        /\ \A q \in Request \ {r} : pc'[q] = pc[q] /\ status'[q] = status[q]
    BY <1>6 DEF Base, Types, Take
  <2>2. /\ pc[r] \notin Committed \cup Over
        /\ pc'[r] \notin Committed \cup Over
              \/ (pc'[r] \in Over /\ pc'[r] \notin Committed /\ status'[r] \notin {"200", "cut"})
    BY <1>6 DEF Base, Types, Take
  <2>3. QED BY <2>1, <2>2, NotWritten
<1>7. ASSUME NEW r \in Request, OpenFails(r) PROVE Answered'
  BY <1>7 DEF Base, Types, OpenFails
<1>8. ASSUME NEW r \in Request, Write(r) PROVE Answered'
  BY <1>8 DEF Base, Types, Write
<1>9. ASSUME NEW r \in Request, WriteAll(r) PROVE Answered'
  <2> DEFINE n == Len(lines)
             line == [seq |-> n + 1, of |-> r]
  <2>1. n \in Nat /\ sequence = n /\ tail = "torn"
    BY <1>9 DEF Base, Types, CleanTail, WriteAll
  <2>i. ~InFile(r)
    BY <1>9 DEF WriteAll
  <2>2. /\ lines' = Append(lines, line) /\ line.seq = n + 1 /\ line.of = r
    BY <1>9, <2>1 DEF WriteAll
  <2>3. /\ DOMAIN lines = 1..n /\ DOMAIN lines' = 1..(n + 1)
        /\ \A i \in 1..n : lines'[i] = lines[i]
        /\ lines'[n + 1] = line
    BY <2>1, <2>2 DEF Base, Types
  <2>4. /\ \A q \in Request \ {r} : pc'[q] = pc[q]
        /\ pc'[r] = "written" /\ status' = status
    BY <1>9 DEF Base, Types, WriteAll
  <2> HIDE DEF line
  <2>5. /\ InFile(r)'
        /\ \A q \in Request \ {r} : InFile(q)' <=> InFile(q)
    BY <2>1, <2>2, <2>3
  <2>6. \A i \in DOMAIN lines' : lines'[i].seq = i
    BY <2>1, <2>2, <2>3
  <2>7. \A i, j \in DOMAIN lines' : lines'[i].of = lines'[j].of => i = j
    BY <2>1, <2>i, <2>2, <2>3
  <2>8. \A q \in Request : Told(q)'
    BY <2>4, <2>5
  <2>9. QED BY <2>6, <2>7, <2>8
<1>10. ASSUME NEW r \in Request, WriteShort(r) PROVE Answered'
  BY <1>10 DEF Base, Types, WriteShort
<1>11. ASSUME NEW r \in Request, RollBack(r) PROVE Answered'
  BY <1>11 DEF Base, Types, RollBack
<1>12. ASSUME NEW r \in Request, RollBackFails(r) PROVE Answered'
  BY <1>12 DEF Base, Types, RollBackFails
<1>13. ASSUME NEW r \in Request, RawFailure(r) PROVE Answered'
  <2>1. /\ lines' = lines
        /\ \A q \in Request \ {r} : pc'[q] = pc[q] /\ status'[q] = status[q]
    BY <1>13 DEF Base, Types, RawFailure
  <2>2. /\ pc[r] \notin Committed \cup Over
        /\ pc'[r] \notin Committed \cup Over
              \/ (pc'[r] \in Over /\ pc'[r] \notin Committed /\ status'[r] \notin {"200", "cut"})
    BY <1>13 DEF Base, Types, RawFailure
  <2>3. QED BY <2>1, <2>2, NotWritten
<1>14. ASSUME NEW r \in Request, Accepted(r) PROVE Answered'
  BY <1>14 DEF Base, Types, Accepted
<1>15. ASSUME NEW r \in Request, NEW fails \in BOOLEAN, Project(r, fails) PROVE Answered'
  <2>1. /\ lines' = lines
        /\ \A q \in Request \ {r} : pc'[q] = pc[q] /\ status'[q] = status[q]
    BY <1>15 DEF Base, Types, Project
  <2>2. /\ pc[r] \in Projections /\ pc'[r] = AfterProjection(pc[r])
        /\ pc[r] = "analytics" => status'[r] = "200"
    BY <1>15 DEF Base, Types, Project
  <2>i. InFile(r)
    BY <2>2 DEF InFile
  <2>3. pc'[r] \in Committed \/ (pc'[r] = "respond" /\ status'[r] = "200")
    BY <2>2 DEF AfterProjection
  <2>4. Told(r)'
    BY <2>1, <2>i, <2>3
  <2>5. QED BY <2>1, <2>4, OneMoves
<1>16. CASE BeginShutdown
  BY <1>16 DEF Base, Types, BeginShutdown
<1>17. CASE ShutdownDone
  BY <1>17 DEF Base, Types, ShutdownDone
<1>18. CASE ShutdownFails
  BY <1>18 DEF Base, Types, ShutdownFails
<1>19. CASE ShutGate
  BY <1>19 DEF Base, Types, ShutGate
<1>20. CASE Drained
  BY <1>20 DEF Base, Types, Drained
<1>21. CASE Retry
  BY <1>21 DEF Base, Types, Retry
<1>22. CASE CloseStore
  BY <1>22 DEF Base, Types, CloseStore
<1>23. CASE Kill
  BY <1>23 DEF Base, Types, Kill
<1>24. CASE Reopen
  BY <1>24 DEF Base, Types, Reopen
<1>25. CASE UNCHANGED vars
  BY <1>25 DEF Base, Types
<1>26. QED
  BY <1>1, <1>2, <1>3, <1>4, <1>5, <1>6, <1>7, <1>8, <1>9, <1>10, <1>11, <1>12, <1>13,
      <1>14, <1>15, <1>16, <1>17, <1>18, <1>19, <1>20, <1>21, <1>22, <1>23, <1>24, <1>25
      DEF Next, Serve, Shutdown

-----------------------------------------------------------------------------
(* Reported and Counted: the tracker and the gate.                         *)

In(S) == {r \in Request : pc[r] \in S}

\* Moving one request in or out of a set of places changes its count by one.
LEMMA Count ==
    ASSUME NEW S, NEW r \in Request,
           \A q \in Request \ {r} : pc'[q] = pc[q]
    PROVE  /\ Cardinality(In(S)) \in Nat
           /\ Cardinality(In(S)')  = Cardinality(In(S))
                - (IF pc[r] \in S THEN 1 ELSE 0) + (IF pc'[r] \in S THEN 1 ELSE 0)
<1> USE ConstantsAssumption
<1> DEFINE rest == In(S) \ {r}
<1>1. IsFiniteSet(In(S)) /\ IsFiniteSet(rest)
  BY FS_Subset DEF In
<1>2. In(S)' = IF pc'[r] \in S THEN rest \cup {r} ELSE rest
  BY DEF In
<1>3. Cardinality(rest) = IF pc[r] \in S THEN Cardinality(In(S)) - 1 ELSE Cardinality(In(S))
  <2>1. r \in In(S) <=> pc[r] \in S
    BY DEF In
  <2>2. QED BY <1>1, <2>1, FS_RemoveElement
<1>4. Cardinality(rest \cup {r}) = Cardinality(rest) + 1
  BY <1>1, FS_AddElement
<1>5. Cardinality(In(S)) \in Nat /\ Cardinality(rest) \in Nat
  BY <1>1, FS_CardinalityType
<1> HIDE DEF rest
<1>6. QED BY <1>2, <1>3, <1>4, <1>5

\* operator.Tracker's counters and active failures.
Trackers ==
    [requests : Nat, accepted : Nat, rejected : Nat, rawFailures : Nat, projectionFailures : Nat,
     active : [raw : {"none", "raw_append_failed", "raw_store_sealed"},
               profile : {"none", "failed"}, analytics : {"none", "failed"}]]

\* The seal is reported, at the latest when the one who set it leaves.
Reported ==
    /\ tracker \in Trackers
    /\ \A r \in Request :
          /\ pc[r] \in {"append", "writing", "written", "rollback", "append_failed"} => ~sealed
          /\ pc[r] = "store_sealed" => sealed
    /\ tracker.active.raw = "raw_store_sealed" => sealed
    /\ Up /\ sealed => \/ tracker.active.raw = "raw_store_sealed"
                       \/ \E r \in Request : pc[r] = "store_sealed"

\* Nothing was reported.
LEMMA ReportedInit == Init => Reported
BY DEF Init, Reported, Trackers, NewTracker

\* The failure of the raw file is set and the rest of the tracker kept.
LEMMA SetRaw ==
    ASSUME NEW t \in Trackers, NEW x \in {"none", "raw_append_failed", "raw_store_sealed"}
    PROVE  LET u == [t EXCEPT !.active.raw = x]
           IN  /\ u \in Trackers /\ u.active.raw = x
               /\ u.requests = t.requests /\ u.accepted = t.accepted
               /\ u.rejected = t.rejected /\ u.rawFailures = t.rawFailures
<1>1. /\ t.active \in [raw : {"none", "raw_append_failed", "raw_store_sealed"},
                       profile : {"none", "failed"}, analytics : {"none", "failed"}]
  BY DEF Trackers
<1>2. [t.active EXCEPT !.raw = x] \in [raw : {"none", "raw_append_failed", "raw_store_sealed"},
                       profile : {"none", "failed"}, analytics : {"none", "failed"}]
      /\ [t.active EXCEPT !.raw = x].raw = x
  BY <1>1
<1>3. QED BY <1>2 DEF Trackers

\* A projection is reported failed or well, and the rest of the tracker kept.
LEMMA SetProjection ==
    ASSUME NEW t \in Trackers, NEW p \in {"profile", "analytics"}, NEW x \in {"none", "failed"}
    PROVE  LET u == [t EXCEPT !.active[p] = x]
           IN  /\ u \in Trackers /\ u.active.raw = t.active.raw
               /\ u.requests = t.requests /\ u.accepted = t.accepted
               /\ u.rejected = t.rejected /\ u.rawFailures = t.rawFailures
<1>1. /\ t.active \in [raw : {"none", "raw_append_failed", "raw_store_sealed"},
                       profile : {"none", "failed"}, analytics : {"none", "failed"}]
  BY DEF Trackers
<1>2. [t.active EXCEPT ![p] = x] \in [raw : {"none", "raw_append_failed", "raw_store_sealed"},
                       profile : {"none", "failed"}, analytics : {"none", "failed"}]
      /\ [t.active EXCEPT ![p] = x].raw = t.active.raw
  BY <1>1
<1>3. QED BY <1>2 DEF Trackers

\* What a failed append does to the tracker.
LEMMA FailureTracked ==
    ASSUME tracker \in Trackers, NEW r \in Request, RawFailure(r)
    PROVE  /\ tracker' \in Trackers
           /\ tracker'.active.raw = IF pc[r] = "store_sealed" THEN "raw_store_sealed"
                                                            ELSE "raw_append_failed"
           /\ tracker'.requests = tracker.requests
           /\ tracker'.accepted = tracker.accepted
           /\ tracker'.rejected = tracker.rejected
           /\ tracker'.rawFailures = tracker.rawFailures + 1
<1> DEFINE u == [tracker EXCEPT !.rawFailures = @ + 1]
           x == IF pc[r] = "store_sealed" THEN "raw_store_sealed" ELSE "raw_append_failed"
<1>1. /\ u \in Trackers /\ u.rawFailures = tracker.rawFailures + 1
      /\ u.requests = tracker.requests /\ u.accepted = tracker.accepted
      /\ u.rejected = tracker.rejected
  BY DEF Trackers
<1>2. tracker' = [u EXCEPT !.active.raw = x]
  BY DEF RawFailure, Trackers
<1>3. x \in {"none", "raw_append_failed", "raw_store_sealed"}
  OBVIOUS
<1> HIDE DEF u, x
<1>4. /\ tracker' \in Trackers /\ tracker'.active.raw = x
      /\ tracker'.requests = u.requests /\ tracker'.accepted = u.accepted
      /\ tracker'.rejected = u.rejected /\ tracker'.rawFailures = u.rawFailures
  BY <1>1, <1>2, <1>3, SetRaw
<1>5. QED BY <1>1, <1>4 DEF x

\* What a commit does to the tracker.
LEMMA AcceptedTracked ==
    ASSUME tracker \in Trackers, NEW r \in Request, Accepted(r)
    PROVE  /\ tracker' \in Trackers
           /\ tracker'.active.raw = IF tracker.active.raw = "raw_store_sealed"
                                    THEN "raw_store_sealed" ELSE "none"
           /\ tracker'.requests = tracker.requests
           /\ tracker'.accepted = tracker.accepted + 1
           /\ tracker'.rejected = tracker.rejected
           /\ tracker'.rawFailures = tracker.rawFailures
<1> DEFINE u == [tracker EXCEPT !.accepted = @ + 1]
           x == IF u.active.raw = "raw_store_sealed" THEN "raw_store_sealed" ELSE "none"
<1>1. /\ u \in Trackers /\ u.accepted = tracker.accepted + 1 /\ u.active = tracker.active
      /\ u.requests = tracker.requests /\ u.rawFailures = tracker.rawFailures
      /\ u.rejected = tracker.rejected
  BY DEF Trackers
<1>2. tracker' = [u EXCEPT !.active.raw = x]
  BY DEF Accepted, Trackers
<1>3. x \in {"none", "raw_append_failed", "raw_store_sealed"}
  OBVIOUS
<1> HIDE DEF u, x
<1>4. /\ tracker' \in Trackers /\ tracker'.active.raw = x
      /\ tracker'.requests = u.requests /\ tracker'.accepted = u.accepted
      /\ tracker'.rejected = u.rejected /\ tracker'.rawFailures = u.rawFailures
  BY <1>1, <1>2, <1>3, SetRaw
<1>5. QED BY <1>1, <1>4 DEF x

\* What a projection does to the tracker.
LEMMA ProjectTracked ==
    ASSUME tracker \in Trackers, NEW r \in Request, NEW fails \in BOOLEAN, Project(r, fails)
    PROVE  /\ tracker' \in Trackers /\ tracker'.active.raw = tracker.active.raw
           /\ tracker'.requests = tracker.requests
           /\ tracker'.accepted = tracker.accepted
           /\ tracker'.rejected = tracker.rejected
           /\ tracker'.rawFailures = tracker.rawFailures
<1>1. pc[r] \in {"latest", "profile", "analytics"}
  BY DEF Project, Projections
<1>2. CASE pc[r] = "latest"
  BY <1>2 DEF Project
<1>3. CASE pc[r] # "latest" /\ ~fails
  <2>1. pc[r] \in {"profile", "analytics"}
    BY <1>1, <1>3
  <2>2. tracker' = [tracker EXCEPT !.active[pc[r]] = "none"]
    BY <1>3 DEF Project
  <2>3. QED BY <2>1, <2>2, SetProjection
<1>4. CASE pc[r] # "latest" /\ fails
  <2> DEFINE u == [tracker EXCEPT !.projectionFailures = @ + 1]
  <2>1. /\ u \in Trackers /\ u.active = tracker.active
        /\ u.requests = tracker.requests /\ u.accepted = tracker.accepted
        /\ u.rejected = tracker.rejected /\ u.rawFailures = tracker.rawFailures
    BY DEF Trackers
  <2>2. tracker' = [u EXCEPT !.active[pc[r]] = "failed"]
    BY <1>4 DEF Project, Trackers
  <2> HIDE DEF u
  <2>3. pc[r] \in {"profile", "analytics"}
    BY <1>1, <1>4
  <2>4. /\ tracker' \in Trackers /\ tracker'.active.raw = u.active.raw
        /\ tracker'.requests = u.requests /\ tracker'.accepted = u.accepted
        /\ tracker'.rejected = u.rejected /\ tracker'.rawFailures = u.rawFailures
    BY <2>1, <2>2, <2>3, SetProjection
  <2>5. QED BY <2>1, <2>4
<1>5. QED BY <1>2, <1>3, <1>4

\* Every step keeps the report of the seal true.
LEMMA ReportedNext == Base /\ Reported /\ [Next]_vars => Reported'
<1> SUFFICES ASSUME Base, Reported, [Next]_vars PROVE Reported'
  OBVIOUS
<1> USE ConstantsAssumption DEF Reported, PCs, Handling, Uncounted, Projections,
    Inside, Up, Goto, Answer, vars, file, store, processor, gate, process, bounds
<1>1. ASSUME NEW r \in Request, Arrive(r) PROVE Reported'
  BY <1>1 DEF Base, Types, Mutex, Stopping, Arrive
<1>2. ASSUME NEW r \in Request, Enter(r) PROVE Reported'
  <2>1. tracker' \in Trackers /\ tracker'.active = tracker.active
    BY <1>2 DEF Enter, Trackers
  <2>2. QED BY <1>2, <2>1 DEF Base, Types, Mutex, Stopping, Enter
<1>3. ASSUME NEW r \in Request, ReadBody(r) PROVE Reported'
  <2>1. tracker' \in Trackers /\ tracker'.active = tracker.active
    BY <1>3 DEF ReadBody, Trackers
  <2>2. QED BY <1>3, <2>1 DEF Base, Types, Mutex, Stopping, ReadBody
<1>4. ASSUME NEW r \in Request, Respond(r) PROVE Reported'
  BY <1>4 DEF Base, Types, Mutex, Stopping, Respond
<1>5. ASSUME NEW r \in Request, Flush(r) PROVE Reported'
  BY <1>5 DEF Base, Types, Mutex, Stopping, Flush
<1>6. ASSUME NEW r \in Request, Take(r) PROVE Reported'
  <2>1. tracker' \in Trackers /\ tracker'.active = tracker.active
    BY <1>6 DEF Take, Trackers
  <2>2. QED BY <1>6, <2>1 DEF Base, Types, Mutex, Stopping, Take
<1>7. ASSUME NEW r \in Request, OpenFails(r) PROVE Reported'
  BY <1>7 DEF Base, Types, Mutex, Stopping, OpenFails
<1>8. ASSUME NEW r \in Request, Write(r) PROVE Reported'
  BY <1>8 DEF Base, Types, Mutex, Stopping, Write
<1>9. ASSUME NEW r \in Request, WriteAll(r) PROVE Reported'
  BY <1>9 DEF Base, Types, Mutex, Stopping, WriteAll
<1>10. ASSUME NEW r \in Request, WriteShort(r) PROVE Reported'
  BY <1>10 DEF Base, Types, Mutex, Stopping, WriteShort
<1>11. ASSUME NEW r \in Request, RollBack(r) PROVE Reported'
  BY <1>11 DEF Base, Types, Mutex, Stopping, RollBack
<1>12. ASSUME NEW r \in Request, RollBackFails(r) PROVE Reported'
  BY <1>12 DEF Base, Types, Mutex, Stopping, RollBackFails
<1>13. ASSUME NEW r \in Request, RawFailure(r) PROVE Reported'
  <2>1. /\ tracker' \in Trackers
        /\ tracker'.active.raw = IF pc[r] = "store_sealed" THEN "raw_store_sealed"
                                                         ELSE "raw_append_failed"
    BY <1>13, FailureTracked
  <2>2. QED BY <1>13, <2>1 DEF Base, Types, Mutex, Stopping, RawFailure
<1>14. ASSUME NEW r \in Request, Accepted(r) PROVE Reported'
  <2>1. /\ tracker' \in Trackers
        /\ tracker'.active.raw = IF tracker.active.raw = "raw_store_sealed"
                                 THEN "raw_store_sealed" ELSE "none"
    BY <1>14, AcceptedTracked
  <2>2. QED BY <1>14, <2>1 DEF Base, Types, Mutex, Stopping, Accepted
<1>15. ASSUME NEW r \in Request, NEW fails \in BOOLEAN, Project(r, fails) PROVE Reported'
  <2>1. tracker' \in Trackers /\ tracker'.active.raw = tracker.active.raw
    BY <1>15, ProjectTracked
  <2>2. pc[r] \in Projections /\ pc'[r] \in {"profile", "analytics", "respond"}
    BY <1>15 DEF Base, Types, Project, AfterProjection
  <2>3. /\ \A q \in Request \ {r} : pc'[q] = pc[q]
        /\ sealed' = sealed /\ main' = main
    BY <1>15 DEF Base, Types, Project
  <2>4. QED BY <2>1, <2>2, <2>3
<1>16. CASE BeginShutdown
  BY <1>16 DEF Base, Types, Mutex, Stopping, BeginShutdown
<1>17. CASE ShutdownDone
  BY <1>17 DEF Base, Types, Mutex, Stopping, ShutdownDone
<1>18. CASE ShutdownFails
  BY <1>18 DEF Base, Types, Mutex, Stopping, ShutdownFails
<1>19. CASE ShutGate
  BY <1>19 DEF Base, Types, Mutex, Stopping, ShutGate
<1>20. CASE Drained
  BY <1>20 DEF Base, Types, Mutex, Stopping, Drained
<1>21. CASE Retry
  BY <1>21 DEF Base, Types, Mutex, Stopping, Retry
<1>22. CASE CloseStore
  BY <1>22 DEF Base, Types, Mutex, Stopping, CloseStore
<1>23. CASE Kill
  BY <1>23 DEF Base, Types, Mutex, Stopping, Kill
<1>24. CASE Reopen
  <2>1. tracker' \in Trackers /\ tracker'.active.raw = "none"
    BY <1>24 DEF Reopen, Trackers, NewTracker
  <2>2. QED BY <1>24, <2>1 DEF Base, Types, Mutex, Stopping, Reopen
<1>25. CASE UNCHANGED vars
  BY <1>25 DEF Base, Types, Mutex, Stopping
<1>26. QED
  BY <1>1, <1>2, <1>3, <1>4, <1>5, <1>6, <1>7, <1>8, <1>9, <1>10, <1>11, <1>12, <1>13,
      <1>14, <1>15, <1>16, <1>17, <1>18, <1>19, <1>20, <1>21, <1>22, <1>23, <1>24, <1>25
      DEF Next, Serve, Shutdown

\* Posts not counted out yet, and the lines this process wrote.
Is(p, S) == IF p \in S THEN 1 ELSE 0
Left == tracker.requests - (tracker.accepted + tracker.rejected + tracker.rawFailures)
Own == Len(lines) - base

\* The gate counts who is inside, the tracker who came, left and was accepted.
Counted ==
    /\ inflight \in 0..Cardinality(Request)
    /\ Up => /\ inflight = Cardinality(In(Handling))
             /\ Left = Cardinality(In(Uncounted))
             /\ tracker.accepted + Cardinality(In({"written"})) = Own

\* Never more requests in a place than there are.
LEMMA InBound ==
    ASSUME NEW S PROVE Cardinality(In(S)) \in 0..Cardinality(Request)
BY ConstantsAssumption, FS_Subset, FS_CardinalityType DEF In

\* No request in a place, none counted.
LEMMA NobodyIn ==
    ASSUME NEW S, \A r \in Request : pc[r] \notin S PROVE Cardinality(In(S)) = 0
BY FS_EmptySet DEF In

\* Nobody is counted.
LEMMA CountedInit == Init => Counted
<1> SUFFICES ASSUME Init PROVE Counted
  OBVIOUS
<1>1. \A r \in Request : pc[r] \notin Handling /\ pc[r] \notin Uncounted /\ pc[r] \notin {"written"}
  BY DEF Init, Handling, Uncounted, Projections
<1>2. /\ Cardinality(In(Handling)) = 0 /\ Cardinality(In(Uncounted)) = 0
      /\ Cardinality(In({"written"})) = 0
  BY <1>1, NobodyIn
<1>3. inflight = 0 /\ Left = 0 /\ tracker.accepted = 0 /\ Own = 0
  BY DEF Init, NewTracker, Left, Own
<1>4. Cardinality(Request) \in Nat
  BY ConstantsAssumption, FS_CardinalityType
<1>5. QED BY <1>2, <1>3, <1>4 DEF Counted

\* One request moves, and gate and tracker count it with it.
LEMMA Recount ==
    ASSUME Counted, Up, tracker \in Trackers, tracker' \in Trackers, Types, Types',
           NEW r \in Request, \A q \in Request \ {r} : pc'[q] = pc[q],
           inflight' = inflight - Is(pc[r], Handling) + Is(pc'[r], Handling),
           Left' = Left - Is(pc[r], Uncounted) + Is(pc'[r], Uncounted),
           tracker'.accepted + Is(pc'[r], {"written"}) - Own'
              = tracker.accepted + Is(pc[r], {"written"}) - Own
    PROVE  Counted'
<1>1. /\ tracker.accepted \in Nat /\ Left \in Int /\ tracker'.accepted \in Nat
      /\ Own \in Int /\ Own' \in Int
  <2>1. Len(lines) \in Nat /\ base \in 0..Len(lines) /\ Len(lines)' \in Nat /\ base' \in 0..Len(lines)'
    BY DEF Types
  <2>2. Own \in Int /\ Own' \in Int
    BY <2>1 DEF Own
  <2>3. QED BY <2>2 DEF Trackers, Left
<1>2. \A S : /\ Cardinality(In(S)) \in Nat
             /\ Cardinality(In(S)') = Cardinality(In(S)) - Is(pc[r], S) + Is(pc'[r], S)
  <2> TAKE S
  <2>1. QED BY Count DEF Is
<1>3. Cardinality(In(Handling)') \in 0..Cardinality(Request)
  <2>1. In(Handling)' \subseteq Request
    BY DEF In
  <2>2. QED BY <2>1, ConstantsAssumption, FS_Subset, FS_CardinalityType
<1>4. inflight' = Cardinality(In(Handling)')
  BY <1>2 DEF Counted
<1>5. Left' = Cardinality(In(Uncounted)')
  BY <1>1, <1>2 DEF Counted
<1>6. tracker'.accepted + Cardinality(In({"written"})') = Own'
  <2>1. Is(pc[r], {"written"}) \in Int /\ Is(pc'[r], {"written"}) \in Int
    BY DEF Is
  <2>2. Cardinality(In({"written"})') =
           Cardinality(In({"written"})) - Is(pc[r], {"written"}) + Is(pc'[r], {"written"})
    BY <1>2
  <2>3. QED BY <1>1, <1>2, <2>1, <2>2 DEF Counted
<1>7. QED BY <1>3, <1>4, <1>5, <1>6 DEF Counted

\* Every step keeps the counts.
LEMMA CountedNext ==
    ASSUME Base, Base', Reported, Reported', Counted, [Next]_vars PROVE Counted'
<1> USE ConstantsAssumption DEF vars, file, store, processor, gate, process, bounds,
    Goto, Answer,
        PCs, Handling, Uncounted, Projections, Is
<1>i. /\ inflight \in Int /\ Len(lines) \in Nat /\ base \in Nat
      /\ tracker.requests \in Nat /\ tracker.accepted \in Nat
      /\ tracker.rejected \in Nat /\ tracker.rawFailures \in Nat
      /\ Left \in Int /\ pc \in [Request -> PCs]
  <2>1. inflight \in Int
    BY FS_CardinalityType DEF Counted
  <2>2. Len(lines) \in Nat /\ base \in Nat /\ pc \in [Request -> PCs]
    BY DEF Base, Types
  <2>3. QED BY <2>1, <2>2 DEF Reported, Trackers, Left
<1>k. /\ tracker.requests \in Nat /\ tracker.accepted \in Nat
      /\ tracker.rejected \in Nat /\ tracker.rawFailures \in Nat
  BY <1>i
<1>j. /\ LET t == [tracker EXCEPT !.requests = @ + 1]
         IN  /\ t.requests = tracker.requests + 1 /\ t.accepted = tracker.accepted
             /\ t.rejected = tracker.rejected /\ t.rawFailures = tracker.rawFailures
      /\ LET t == [tracker EXCEPT !.rejected = @ + 1]
         IN  /\ t.requests = tracker.requests /\ t.accepted = tracker.accepted
             /\ t.rejected = tracker.rejected + 1 /\ t.rawFailures = tracker.rawFailures
  BY DEF Reported, Trackers
<1>1. ASSUME NEW r \in Request, Arrive(r) PROVE Counted'
  <2>1. Up /\ \A q \in Request \ {r} : pc'[q] = pc[q]
    BY <1>1 DEF Base, Types, Stopping, Up, Arrive
  <2>2. inflight' = inflight - Is(pc[r], Handling) + Is(pc'[r], Handling)
    BY <1>i, <1>1 DEF Arrive
  <2>3. Left' = Left - Is(pc[r], Uncounted) + Is(pc'[r], Uncounted)
    BY <1>i, <1>1 DEF Left, Arrive
  <2>4. tracker'.accepted + Is(pc'[r], {"written"}) - Own' = tracker.accepted + Is(pc[r], {"written"}) - Own
    BY <1>i, <1>1 DEF Own, Arrive
  <2>5. QED BY <2>1, <2>2, <2>3, <2>4, Recount DEF Base, Reported
<1>2. ASSUME NEW r \in Request, Enter(r) PROVE Counted'
  <2>1. Up /\ \A q \in Request \ {r} : pc'[q] = pc[q]
    BY <1>2 DEF Base, Types, Stopping, Up, Enter
  <2>2. inflight' = inflight - Is(pc[r], Handling) + Is(pc'[r], Handling)
    BY <1>i, <1>2 DEF Enter
  <2>3. Left' = Left - Is(pc[r], Uncounted) + Is(pc'[r], Uncounted)
    <3>1. \/ pc[r] = "gate" /\ pc'[r] = "flush" /\ tracker' = tracker
          \/ pc[r] = "gate" /\ pc'[r] = "body" /\ tracker' = [tracker EXCEPT !.requests = @ + 1]
      BY <1>i, <1>2 DEF Enter
    <3>2. \/ pc'[r] = "flush" /\ tracker' = tracker
          \/ pc'[r] = "body" /\ tracker'.requests = tracker.requests + 1 /\ tracker'.rejected = tracker.rejected
                /\ tracker'.accepted = tracker.accepted /\ tracker'.rawFailures = tracker.rawFailures
      BY <1>j, <3>1
    <3>3. \/ pc'[r] = "flush" /\ Left' = Left
          \/ pc'[r] = "body" /\ Left' = Left + 1
      BY <1>k, <3>2 DEF Left
    <3>4. QED BY <1>i, <3>1, <3>3
  <2>4. tracker'.accepted + Is(pc'[r], {"written"}) - Own' = tracker.accepted + Is(pc[r], {"written"}) - Own
    BY <1>i, <1>2 DEF Own, Enter, Reported, Trackers
  <2>5. QED BY <2>1, <2>2, <2>3, <2>4, Recount DEF Base, Reported
<1>3. ASSUME NEW r \in Request, ReadBody(r) PROVE Counted'
  <2>1. Up /\ \A q \in Request \ {r} : pc'[q] = pc[q]
    BY <1>3 DEF Base, Types, Stopping, Up, ReadBody
  <2>2. inflight' = inflight - Is(pc[r], Handling) + Is(pc'[r], Handling)
    BY <1>i, <1>3 DEF ReadBody
  <2>3. Left' = Left - Is(pc[r], Uncounted) + Is(pc'[r], Uncounted)
    <3>1. \/ pc[r] = "body" /\ pc'[r] = "process" /\ tracker' = tracker
          \/ pc[r] = "body" /\ pc'[r] = "respond" /\ tracker' = [tracker EXCEPT !.rejected = @ + 1]
      BY <1>i, <1>3 DEF ReadBody
    <3>2. \/ pc'[r] = "process" /\ tracker' = tracker
          \/ pc'[r] = "respond" /\ tracker'.rejected = tracker.rejected + 1 /\ tracker'.requests = tracker.requests
                /\ tracker'.accepted = tracker.accepted /\ tracker'.rawFailures = tracker.rawFailures
      BY <1>j, <3>1
    <3>3. \/ pc'[r] = "process" /\ Left' = Left
          \/ pc'[r] = "respond" /\ Left' = Left - 1
      BY <1>k, <3>2 DEF Left
    <3>4. QED BY <1>i, <3>1, <3>3
  <2>4. tracker'.accepted + Is(pc'[r], {"written"}) - Own' = tracker.accepted + Is(pc[r], {"written"}) - Own
    BY <1>i, <1>3 DEF Own, ReadBody, Reported, Trackers
  <2>5. QED BY <2>1, <2>2, <2>3, <2>4, Recount DEF Base, Reported
<1>4. ASSUME NEW r \in Request, Respond(r) PROVE Counted'
  <2>1. Up /\ \A q \in Request \ {r} : pc'[q] = pc[q]
    BY <1>4 DEF Base, Types, Stopping, Up, Respond
  <2>2. inflight' = inflight - Is(pc[r], Handling) + Is(pc'[r], Handling)
    BY <1>i, <1>4 DEF Respond
  <2>3. Left' = Left - Is(pc[r], Uncounted) + Is(pc'[r], Uncounted)
    BY <1>i, <1>4 DEF Left, Respond
  <2>4. tracker'.accepted + Is(pc'[r], {"written"}) - Own' = tracker.accepted + Is(pc[r], {"written"}) - Own
    BY <1>i, <1>4 DEF Own, Respond
  <2>5. QED BY <2>1, <2>2, <2>3, <2>4, Recount DEF Base, Reported
<1>5. ASSUME NEW r \in Request, Flush(r) PROVE Counted'
  <2>1. Up /\ \A q \in Request \ {r} : pc'[q] = pc[q]
    BY <1>5 DEF Base, Types, Stopping, Up, Flush
  <2>2. inflight' = inflight - Is(pc[r], Handling) + Is(pc'[r], Handling)
    BY <1>i, <1>5 DEF Flush
  <2>3. Left' = Left - Is(pc[r], Uncounted) + Is(pc'[r], Uncounted)
    BY <1>i, <1>5 DEF Left, Flush
  <2>4. tracker'.accepted + Is(pc'[r], {"written"}) - Own' = tracker.accepted + Is(pc[r], {"written"}) - Own
    BY <1>i, <1>5 DEF Own, Flush
  <2>5. QED BY <2>1, <2>2, <2>3, <2>4, Recount DEF Base, Reported
<1>6. ASSUME NEW r \in Request, Take(r) PROVE Counted'
  <2>1. Up /\ \A q \in Request \ {r} : pc'[q] = pc[q]
    BY <1>6 DEF Base, Types, Stopping, Up, Take
  <2>2. inflight' = inflight - Is(pc[r], Handling) + Is(pc'[r], Handling)
    BY <1>i, <1>6 DEF Take
  <2>3. Left' = Left - Is(pc[r], Uncounted) + Is(pc'[r], Uncounted)
    <3>1. \/ pc[r] = "process" /\ pc'[r] \in {"append", "store_sealed"} /\ tracker' = tracker
          \/ pc[r] = "process" /\ pc'[r] = "respond" /\ tracker' = [tracker EXCEPT !.rejected = @ + 1]
      BY <1>i, <1>6 DEF Take
    <3>2. \/ pc'[r] \in {"append", "store_sealed"} /\ tracker' = tracker
          \/ pc'[r] = "respond" /\ tracker'.rejected = tracker.rejected + 1 /\ tracker'.requests = tracker.requests
                /\ tracker'.accepted = tracker.accepted /\ tracker'.rawFailures = tracker.rawFailures
      BY <1>j, <3>1
    <3>3. \/ pc'[r] \in {"append", "store_sealed"} /\ Left' = Left
          \/ pc'[r] = "respond" /\ Left' = Left - 1
      BY <1>k, <3>2 DEF Left
    <3>4. QED BY <1>i, <3>1, <3>3
  <2>4. tracker'.accepted + Is(pc'[r], {"written"}) - Own' = tracker.accepted + Is(pc[r], {"written"}) - Own
    BY <1>i, <1>6 DEF Own, Take, Reported, Trackers
  <2>5. QED BY <2>1, <2>2, <2>3, <2>4, Recount DEF Base, Reported
<1>7. ASSUME NEW r \in Request, OpenFails(r) PROVE Counted'
  <2>1. Up /\ \A q \in Request \ {r} : pc'[q] = pc[q]
    BY <1>7 DEF Base, Types, Stopping, Up, OpenFails
  <2>2. inflight' = inflight - Is(pc[r], Handling) + Is(pc'[r], Handling)
    BY <1>i, <1>7 DEF OpenFails
  <2>3. Left' = Left - Is(pc[r], Uncounted) + Is(pc'[r], Uncounted)
    BY <1>i, <1>7 DEF Left, OpenFails
  <2>4. tracker'.accepted + Is(pc'[r], {"written"}) - Own' = tracker.accepted + Is(pc[r], {"written"}) - Own
    BY <1>i, <1>7 DEF Own, OpenFails
  <2>5. QED BY <2>1, <2>2, <2>3, <2>4, Recount DEF Base, Reported
<1>8. ASSUME NEW r \in Request, Write(r) PROVE Counted'
  <2>1. Up /\ \A q \in Request \ {r} : pc'[q] = pc[q]
    BY <1>8 DEF Base, Types, Stopping, Up, Write
  <2>2. inflight' = inflight - Is(pc[r], Handling) + Is(pc'[r], Handling)
    BY <1>i, <1>8 DEF Write
  <2>3. Left' = Left - Is(pc[r], Uncounted) + Is(pc'[r], Uncounted)
    BY <1>i, <1>8 DEF Left, Write
  <2>4. tracker'.accepted + Is(pc'[r], {"written"}) - Own' = tracker.accepted + Is(pc[r], {"written"}) - Own
    BY <1>i, <1>8 DEF Own, Write
  <2>5. QED BY <2>1, <2>2, <2>3, <2>4, Recount DEF Base, Reported
<1>9. ASSUME NEW r \in Request, WriteAll(r) PROVE Counted'
  <2>1. Up /\ \A q \in Request \ {r} : pc'[q] = pc[q]
    BY <1>9 DEF Base, Types, Stopping, Up, WriteAll
  <2>2. inflight' = inflight - Is(pc[r], Handling) + Is(pc'[r], Handling)
    BY <1>i, <1>9 DEF WriteAll
  <2>3. Left' = Left - Is(pc[r], Uncounted) + Is(pc'[r], Uncounted)
    BY <1>i, <1>9 DEF Left, WriteAll
  <2>4. tracker'.accepted + Is(pc'[r], {"written"}) - Own' = tracker.accepted + Is(pc[r], {"written"}) - Own
    BY <1>i, <1>9 DEF Own, WriteAll, Base, Types
  <2>5. QED BY <2>1, <2>2, <2>3, <2>4, Recount DEF Base, Reported
<1>10. ASSUME NEW r \in Request, WriteShort(r) PROVE Counted'
  <2>1. Up /\ \A q \in Request \ {r} : pc'[q] = pc[q]
    BY <1>10 DEF Base, Types, Stopping, Up, WriteShort
  <2>2. inflight' = inflight - Is(pc[r], Handling) + Is(pc'[r], Handling)
    BY <1>i, <1>10 DEF WriteShort
  <2>3. Left' = Left - Is(pc[r], Uncounted) + Is(pc'[r], Uncounted)
    BY <1>i, <1>10 DEF Left, WriteShort
  <2>4. tracker'.accepted + Is(pc'[r], {"written"}) - Own' = tracker.accepted + Is(pc[r], {"written"}) - Own
    BY <1>i, <1>10 DEF Own, WriteShort
  <2>5. QED BY <2>1, <2>2, <2>3, <2>4, Recount DEF Base, Reported
<1>11. ASSUME NEW r \in Request, RollBack(r) PROVE Counted'
  <2>1. Up /\ \A q \in Request \ {r} : pc'[q] = pc[q]
    BY <1>11 DEF Base, Types, Stopping, Up, RollBack
  <2>2. inflight' = inflight - Is(pc[r], Handling) + Is(pc'[r], Handling)
    BY <1>i, <1>11 DEF RollBack
  <2>3. Left' = Left - Is(pc[r], Uncounted) + Is(pc'[r], Uncounted)
    BY <1>i, <1>11 DEF Left, RollBack
  <2>4. tracker'.accepted + Is(pc'[r], {"written"}) - Own' = tracker.accepted + Is(pc[r], {"written"}) - Own
    BY <1>i, <1>11 DEF Own, RollBack
  <2>5. QED BY <2>1, <2>2, <2>3, <2>4, Recount DEF Base, Reported
<1>12. ASSUME NEW r \in Request, RollBackFails(r) PROVE Counted'
  <2>1. Up /\ \A q \in Request \ {r} : pc'[q] = pc[q]
    BY <1>12 DEF Base, Types, Stopping, Up, RollBackFails
  <2>2. inflight' = inflight - Is(pc[r], Handling) + Is(pc'[r], Handling)
    BY <1>i, <1>12 DEF RollBackFails
  <2>3. Left' = Left - Is(pc[r], Uncounted) + Is(pc'[r], Uncounted)
    BY <1>i, <1>12 DEF Left, RollBackFails
  <2>4. tracker'.accepted + Is(pc'[r], {"written"}) - Own' = tracker.accepted + Is(pc[r], {"written"}) - Own
    BY <1>i, <1>12 DEF Own, RollBackFails
  <2>5. QED BY <2>1, <2>2, <2>3, <2>4, Recount DEF Base, Reported
<1>13. ASSUME NEW r \in Request, RawFailure(r) PROVE Counted'
  <2>1. Up /\ \A q \in Request \ {r} : pc'[q] = pc[q]
    BY <1>13 DEF Base, Types, Stopping, Up, RawFailure
  <2>2. tracker \in Trackers
    BY DEF Reported
  <2>3. inflight' = inflight - Is(pc[r], Handling) + Is(pc'[r], Handling)
    BY <1>i, <1>13 DEF RawFailure
  <2>4. Left' = Left - Is(pc[r], Uncounted) + Is(pc'[r], Uncounted)
    <3>1. pc[r] \in {"append_failed", "store_sealed"} /\ pc'[r] = "respond"
      BY <1>i, <1>13 DEF RawFailure
    <3>2. Left' = Left - 1
      BY <1>i, <1>13, <2>2, FailureTracked DEF Left
    <3>3. QED BY <1>i, <3>1, <3>2
  <2>5. tracker'.accepted + Is(pc'[r], {"written"}) - Own' = tracker.accepted + Is(pc[r], {"written"}) - Own
    BY <1>i, <1>13, <2>2, FailureTracked DEF Own, RawFailure
  <2>6. QED BY <2>1, <2>3, <2>4, <2>5, Recount DEF Base, Reported
<1>14. ASSUME NEW r \in Request, Accepted(r) PROVE Counted'
  <2>1. Up /\ \A q \in Request \ {r} : pc'[q] = pc[q]
    BY <1>14 DEF Base, Types, Stopping, Up, Accepted
  <2>2. tracker \in Trackers
    BY DEF Reported
  <2>3. inflight' = inflight - Is(pc[r], Handling) + Is(pc'[r], Handling)
    BY <1>i, <1>14 DEF Accepted
  <2>4. Left' = Left - Is(pc[r], Uncounted) + Is(pc'[r], Uncounted)
    <3>1. pc[r] = "written" /\ pc'[r] = "latest"
      BY <1>i, <1>14 DEF Accepted
    <3>2. Left' = Left - 1
      <4>1. /\ tracker'.requests = tracker.requests /\ tracker'.accepted = tracker.accepted + 1
            /\ tracker'.rejected = tracker.rejected /\ tracker'.rawFailures = tracker.rawFailures
        BY <1>14, <2>2, AcceptedTracked
      <4>2. QED BY <1>k, <4>1 DEF Left
    <3>3. QED BY <1>i, <3>1, <3>2
  <2>5. tracker'.accepted + Is(pc'[r], {"written"}) - Own' = tracker.accepted + Is(pc[r], {"written"}) - Own
    BY <1>i, <1>14, <2>2, AcceptedTracked DEF Own, Accepted
  <2>6. QED BY <2>1, <2>3, <2>4, <2>5, Recount DEF Base, Reported
<1>15. ASSUME NEW r \in Request, NEW fails \in BOOLEAN, Project(r, fails) PROVE Counted'
  <2>1. Up /\ \A q \in Request \ {r} : pc'[q] = pc[q]
    BY <1>15 DEF Base, Types, Stopping, Up, Project
  <2>2. tracker \in Trackers
    BY DEF Reported
  <2>3. inflight' = inflight - Is(pc[r], Handling) + Is(pc'[r], Handling)
    BY <1>i, <1>15 DEF Project, AfterProjection
  <2>4. Left' = Left - Is(pc[r], Uncounted) + Is(pc'[r], Uncounted)
    <3>1. pc[r] \in Projections /\ pc'[r] \in {"profile", "analytics", "respond"}
      BY <1>i, <1>15 DEF Project, AfterProjection
    <3>2. Left' = Left
      BY <1>i, <1>15, <2>2, ProjectTracked DEF Left
    <3>3. QED BY <1>i, <3>1, <3>2
  <2>5. tracker'.accepted + Is(pc'[r], {"written"}) - Own' = tracker.accepted + Is(pc[r], {"written"}) - Own
    BY <1>i, <1>15, <2>2, ProjectTracked DEF Own, Project, AfterProjection
  <2>6. QED BY <2>1, <2>3, <2>4, <2>5, Recount DEF Base, Reported
<1>16. CASE BeginShutdown
  BY <1>16 DEF Counted, In, Left, Own, Up, BeginShutdown
<1>17. CASE ShutdownDone
  BY <1>17 DEF Counted, In, Left, Own, Up, ShutdownDone
<1>18. CASE ShutdownFails
  BY <1>18 DEF Counted, In, Left, Own, Up, ShutdownFails
<1>19. CASE ShutGate
  BY <1>19 DEF Counted, In, Left, Own, Up, ShutGate
<1>20. CASE Drained
  BY <1>20 DEF Counted, In, Left, Own, Up, Drained
<1>21. CASE Retry
  BY <1>21 DEF Counted, In, Left, Own, Up, Retry
<1>22. CASE CloseStore
  BY <1>22 DEF Counted, In, Left, Own, Up, CloseStore
<1>23. CASE Kill
  BY <1>23 DEF Counted, In, Left, Own, Up, Kill
<1>24. CASE UNCHANGED vars
  BY <1>24 DEF Counted, In, Left, Own, Up
<1>25. CASE Reopen
  <2>1. \A r \in Request : pc'[r] \notin Handling /\ pc'[r] \notin Uncounted /\ pc'[r] \notin {"written"}
    BY <1>25 DEF Base, Stopping, Up, Reopen
  <2>2. /\ In(Handling)' = {} /\ In(Uncounted)' = {} /\ In({"written"})' = {}
    BY <2>1 DEF In
  <2>3. /\ inflight' = 0 /\ Left' = 0 /\ tracker'.accepted = 0 /\ (Up' => Own' = 0)
    BY <1>25 DEF Base, Types, Reopen, NewTracker, Left, Own, Up
  <2>4. /\ Cardinality(In(Handling)') = 0 /\ Cardinality(In(Uncounted)') = 0
        /\ Cardinality(In({"written"})') = 0
    BY <2>2, FS_EmptySet
  <2>5. 0 \in 0..Cardinality(Request)
    BY FS_CardinalityType
  <2>6. QED BY <2>3, <2>4, <2>5 DEF Counted
<1>26. QED
  BY <1>1, <1>2, <1>3, <1>4, <1>5, <1>6, <1>7, <1>8, <1>9, <1>10, <1>11, <1>12, <1>13,
      <1>14, <1>15, <1>16, <1>17, <1>18, <1>19, <1>20, <1>21, <1>22, <1>23, <1>24, <1>25
      DEF Next, Serve, Shutdown

-----------------------------------------------------------------------------
(* Progress: the projections.                                              *)

\* Places of a request whose line p has not seen.
Before(p) ==
    CASE p = "latest" -> {"written", "latest"}
      [] p = "profile" -> {"written", "latest", "profile"}
      [] p = "analytics" -> {"written", "latest", "profile", "analytics"}
Due(p) == \E r \in Request : pc[r] \in Before(p)
Upto(n) == [i \in 1..(n - base) |-> base + i]

\* Each projection saw every line of this process, but for one that is due.
Progress ==
    /\ \A r \in Request : pc[r] \in Committed => base < sequence
    /\ Up => \A p \in Projections :
                projected[p] = Upto(IF Due(p) THEN sequence - 1 ELSE sequence)

\* Appending the next sequence number to those up to it.
LEMMA OneMore ==
    ASSUME NEW b \in Nat, NEW m \in Nat
    PROVE  Append([i \in 1..m |-> b + i], b + m + 1) = [i \in 1..(m + 1) |-> b + i]
<1> DEFINE f == [i \in 1..m |-> b + i]
           g == [i \in 1..(m + 1) |-> b + i]
<1>1. f \in Seq(Nat) /\ g \in Seq(Nat) /\ Len(f) = m /\ Len(g) = m + 1
  OBVIOUS
<1>2. Append(f, b + m + 1) \in Seq(Nat) /\ Len(Append(f, b + m + 1)) = m + 1
  BY <1>1
<1>3. \A i \in 1..(m + 1) : Append(f, b + m + 1)[i] = g[i]
  BY <1>1
<1>4. QED BY <1>1, <1>2, <1>3, SeqEqual

\* No projection has seen anything.
LEMMA ProgressInit == Init => Progress
<1> SUFFICES ASSUME Init PROVE Progress
  OBVIOUS
<1>1. \A p \in Projections : ~Due(p) /\ projected[p] = <<>>
  BY DEF Init, Due, Before, Projections
<1>2. Upto(0) = <<>>
  BY DEF Init, Upto
<1>3. QED BY <1>1, <1>2 DEF Init, Progress, Committed, Projections

\* A request that neither is nor comes between write and projections.
LEMMA Elsewhere ==
    ASSUME Progress, UNCHANGED <<projected, sequence, base, main>>,
           \A r \in Request : pc'[r] = pc[r] \/ {pc[r], pc'[r]} \cap Committed = {}
    PROVE  Progress'
<1>1. \A p \in Projections : Before(p) \subseteq Committed
  BY DEF Before, Committed, Projections
<1>2. \A p \in Projections : Due(p)' <=> Due(p)
  BY <1>1 DEF Due
<1>3. QED BY <1>2 DEF Progress, Upto, Up

\* Every step keeps the projections in step with the file.
LEMMA ProgressNext ==
    ASSUME Base, Base', Progress, [Next]_vars PROVE Progress'
<1> USE DEF vars, file, store, processor, gate, process, bounds, Goto, Committed
<1>i. /\ sequence \in Nat /\ base \in 0..sequence /\ pc \in [Request -> PCs]
      /\ projected \in [Projections -> Seq(Nat)]
  BY DEF Base, Types
<1>1. ASSUME NEW r \in Request, Arrive(r) PROVE Progress'
  BY <1>i, <1>1, Elsewhere DEF Arrive, Projections
<1>2. ASSUME NEW r \in Request, Enter(r) PROVE Progress'
  BY <1>i, <1>2, Elsewhere DEF Enter, Projections
<1>3. ASSUME NEW r \in Request, ReadBody(r) PROVE Progress'
  BY <1>i, <1>3, Elsewhere DEF ReadBody, Projections
<1>4. ASSUME NEW r \in Request, Respond(r) PROVE Progress'
  BY <1>i, <1>4, Elsewhere DEF Respond, Projections
<1>5. ASSUME NEW r \in Request, Flush(r) PROVE Progress'
  BY <1>i, <1>5, Elsewhere DEF Flush, Projections
<1>6. ASSUME NEW r \in Request, Take(r) PROVE Progress'
  BY <1>i, <1>6, Elsewhere DEF Take, Projections
<1>7. ASSUME NEW r \in Request, OpenFails(r) PROVE Progress'
  BY <1>i, <1>7, Elsewhere DEF OpenFails, Projections
<1>8. ASSUME NEW r \in Request, Write(r) PROVE Progress'
  BY <1>i, <1>8, Elsewhere DEF Write, Projections
<1>9. ASSUME NEW r \in Request, WriteAll(r) PROVE Progress'
  <2>1. /\ pc[r] = "writing" /\ pc'[r] = "written" /\ Up
        /\ \A q \in Request \ {r} : pc'[q] = pc[q]
        /\ sequence' = sequence + 1 /\ UNCHANGED <<projected, base, main>>
    BY <1>i, <1>9 DEF WriteAll, Base, Stopping, Up
  <2>2. \A q \in Request : pc[q] \notin Committed
    BY <2>1 DEF Base, Mutex, Inside, Projections
  <2>3. \A s \in Projections : ~Due(s) /\ Due(s)'
    <3>1. \A s \in Projections : Before(s) \subseteq Committed /\ "written" \in Before(s)
      BY DEF Before, Projections
    <3>2. QED BY <2>1, <2>2, <3>1 DEF Due
  <2>4. QED BY <1>i, <2>1, <2>3 DEF Progress, Upto, Up
<1>10. ASSUME NEW r \in Request, WriteShort(r) PROVE Progress'
  BY <1>i, <1>10, Elsewhere DEF WriteShort, Projections
<1>11. ASSUME NEW r \in Request, RollBack(r) PROVE Progress'
  BY <1>i, <1>11, Elsewhere DEF RollBack, Projections
<1>12. ASSUME NEW r \in Request, RollBackFails(r) PROVE Progress'
  BY <1>i, <1>12, Elsewhere DEF RollBackFails, Projections
<1>13. ASSUME NEW r \in Request, RawFailure(r) PROVE Progress'
  BY <1>i, <1>13, Elsewhere DEF RawFailure, Projections
<1>14. ASSUME NEW r \in Request, Accepted(r) PROVE Progress'
  <2>1. /\ pc[r] = "written" /\ pc'[r] = "latest"
        /\ \A q \in Request \ {r} : pc'[q] = pc[q]
        /\ UNCHANGED <<sequence, projected, base, main>>
    BY <1>i, <1>14 DEF Accepted
  <2>2. \A s \in Projections : {"written", "latest"} \subseteq Before(s)
    BY DEF Before, Projections
  <2>3. \A s \in Projections : Due(s)' <=> Due(s)
    BY <2>1, <2>2 DEF Due
  <2>4. QED BY <2>1, <2>3 DEF Progress, Upto, Up
<1>15. ASSUME NEW r \in Request, NEW fails \in BOOLEAN, Project(r, fails) PROVE Progress'
  <2> DEFINE p == pc[r]
  <2>1. /\ p \in Projections /\ pc'[r] = AfterProjection(p) /\ Up
        /\ \A q \in Request \ {r} : pc'[q] = pc[q]
        /\ projected' = [projected EXCEPT ![p] = Append(@, sequence)]
        /\ UNCHANGED <<sequence, base, main>>
    BY <1>i, <1>15 DEF Project, Base, Stopping, Up, Projections
  <2>2. \A q \in Request : pc[q] \in Committed => q = r
    BY <2>1 DEF Base, Mutex, Inside
  <2>3. \A s \in Projections : (Due(s) <=> p \in Before(s)) /\ (Due(s)' <=> pc'[r] \in Before(s))
    <3>1. \A s \in Projections : Before(s) \subseteq Committed
      BY DEF Before, Projections
    <3>2. QED BY <2>1, <2>2, <3>1 DEF Due
  <2>4. base < sequence
    BY <2>1 DEF Progress
  <2>5. ASSUME NEW s \in Projections
        PROVE  projected'[s] = Upto(IF Due(s)' THEN sequence - 1 ELSE sequence)
    <3>1. CASE s = p
      <4>1. Due(s) /\ ~Due(s)'
        BY <2>1, <2>3, <3>1 DEF Before, AfterProjection, Projections
      <4>2. projected'[s] = Append(Upto(sequence - 1), sequence)
        BY <1>i, <2>1, <3>1, <4>1 DEF Progress
      <4> DEFINE m == sequence - 1 - base
      <4>3. m \in Nat /\ base \in Nat /\ base + m + 1 = sequence /\ sequence - base = m + 1
        BY <1>i, <2>4
      <4>4. Upto(sequence - 1) = [i \in 1..m |-> base + i] /\ Upto(sequence) = [i \in 1..(m + 1) |-> base + i]
        BY <4>3 DEF Upto
      <4> HIDE DEF m
      <4>5. QED BY <4>1, <4>2, <4>3, <4>4, OneMore
    <3>2. CASE s # p
      <4>1. Due(s)' <=> Due(s)
        BY <2>1, <2>3, <3>2 DEF Before, AfterProjection, Projections
      <4>2. QED BY <1>i, <2>1, <3>2, <4>1 DEF Progress
    <3>3. QED BY <3>1, <3>2
  <2>6. QED BY <2>1, <2>2, <2>4, <2>5 DEF Progress, Upto, Up
<1>16. CASE BeginShutdown
  BY <1>16 DEF Progress, Due, Upto, Up, Projections, BeginShutdown
<1>17. CASE ShutdownDone
  BY <1>17 DEF Progress, Due, Upto, Up, Projections, ShutdownDone
<1>18. CASE ShutdownFails
  BY <1>18 DEF Progress, Due, Upto, Up, Projections, ShutdownFails
<1>19. CASE ShutGate
  BY <1>19 DEF Progress, Due, Upto, Up, Projections, ShutGate
<1>20. CASE Drained
  BY <1>20 DEF Progress, Due, Upto, Up, Projections, Drained
<1>21. CASE Retry
  BY <1>21 DEF Progress, Due, Upto, Up, Projections, Retry
<1>22. CASE CloseStore
  BY <1>22 DEF Progress, Due, Upto, Up, Projections, CloseStore
<1>23. CASE Kill
  BY <1>23 DEF Progress, Due, Upto, Up, Projections, Kill
<1>24. CASE UNCHANGED vars
  BY <1>24 DEF Progress, Due, Upto, Up, Projections
<1>25. CASE Reopen
  <2>1. \A r \in Request : pc'[r] \notin Committed
    BY <1>25 DEF Base, Stopping, Up, Reopen, Projections
  <2>2. \A s \in Projections : ~Due(s)'
    <3>1. \A s \in Projections : Before(s) \subseteq Committed
      BY DEF Before, Projections
    <3>2. QED BY <2>1, <3>1 DEF Due
  <2>3. Up' => sequence' = base' /\ sequence' \in Nat
    BY <1>25 DEF Reopen, Up, Base, Types
  <2>4. Up' => Upto(sequence)' = <<>>
    BY <2>3 DEF Upto
  <2>5. \A s \in Projections : projected'[s] = <<>>
    BY <1>25 DEF Reopen
  <2>6. QED BY <2>1, <2>2, <2>4, <2>5 DEF Progress
<1>26. QED
  BY <1>1, <1>2, <1>3, <1>4, <1>5, <1>6, <1>7, <1>8, <1>9, <1>10, <1>11, <1>12, <1>13,
      <1>14, <1>15, <1>16, <1>17, <1>18, <1>19, <1>20, <1>21, <1>22, <1>23, <1>24, <1>25
      DEF Next, Serve, Shutdown

-----------------------------------------------------------------------------
\* The invariant.
LEMMA All == Spec => [](Base /\ Answered /\ Reported /\ Counted /\ Progress)
<1> DEFINE I == Base /\ Answered /\ Reported /\ Counted /\ Progress
<1>1. Init => I
  BY BaseInit, AnsweredInit, ReportedInit, CountedInit, ProgressInit
<1>2. I /\ [Next]_vars => I'
  <2> SUFFICES ASSUME I, [Next]_vars PROVE I'
    OBVIOUS
  <2>1. Base'
    BY TypesNext, MutexNext, StoppingNext, TailNext DEF Base
  <2>2. Answered' /\ Reported'
    BY AnsweredNext, ReportedNext
  <2>3. Counted' /\ Progress'
    BY <2>1, <2>2, CountedNext, ProgressNext
  <2>4. QED BY <2>1, <2>2, <2>3
<1>3. QED BY <1>1, <1>2, PTL DEF Spec

\* The variables keep their types: TypeOK, the gate's count included.
THEOREM TypeCorrect == Spec => []TypeOK
<1>1. Base /\ Reported /\ Counted => TypeOK
  <2> SUFFICES ASSUME Base, Reported, Counted PROVE TypeOK
    OBVIOUS
  <2>1. lines \in Seq(Record \cup {Corrupt})
    BY SeqMonotonic DEF Base, Types
  <2>2. sequence \in Nat /\ tracker.active.raw \in {"none", "raw_append_failed", "raw_store_sealed"}
    BY DEF Base, Types, Reported, Trackers
  <2>3. QED BY <2>1, <2>2 DEF TypeOK, Base, Types, Counted
<1>2. QED BY <1>1, All, PTL

(***************************************************************************)
(* Whatever fails, every projection sees each accepted record once and in  *)
(* order, and the operator status counts and reports what happened.        *)
(***************************************************************************)
THEOREM Projected == Spec => []ProjectedOnceInOrder
<1>1. Base /\ Reported /\ Counted /\ Progress => ProjectedOnceInOrder
  <2> SUFFICES ASSUME Base, Reported, Counted, Progress, Up, holder = Nobody
               PROVE  ProjectedOnceInOrder
    BY DEF ProjectedOnceInOrder
  <2>1. \A r \in Request : pc[r] \notin Inside
    BY ConstantsAssumption DEF Base, Mutex
  <2>2. \A p \in Projections : ~Due(p)
    BY <2>1 DEF Due, Before, Inside, Projections
  <2>3. sequence = Len(lines) /\ Len(lines) \in Nat /\ base \in Nat
    BY DEF Base, Types
  <2>4. \A p \in Projections : projected[p] = [i \in 1..(Len(lines) - base) |-> base + i]
    BY <2>2, <2>3 DEF Progress, Upto
  <2>5. Cardinality(In({"written"})) = 0
    BY <2>1, NobodyIn DEF Inside
  <2>6. tracker.accepted \in Nat /\ tracker.requests \in Nat /\ tracker.rejected \in Nat
        /\ tracker.rawFailures \in Nat
    BY DEF Reported, Trackers
  <2>7. tracker.accepted = Len(lines) - base
    BY <2>3, <2>5, <2>6 DEF Counted, Own
  <2>8. Cardinality(In(Uncounted)) \in Nat
    BY InBound, ConstantsAssumption, FS_CardinalityType
  <2>9. tracker.requests = tracker.accepted + tracker.rejected + tracker.rawFailures
            + Cardinality({r \in Request : pc[r] \in Uncounted})
    BY <2>6, <2>8 DEF Counted, Left, In
  <2>10. tracker.active.raw = "raw_store_sealed" <=> sealed
    BY <2>1 DEF Reported, Inside
  <2>11. QED BY <2>4, <2>7, <2>9, <2>10 DEF ProjectedOnceInOrder
<1>2. QED BY <1>1, All, PTL

(***************************************************************************)
(* No torn write, rollback, seal, kill or reopening damages the file or    *)
(* leaves a gap, and it holds a record for exactly the answers that say so.*)
(***************************************************************************)
THEOREM Evidence == Spec => []EvidenceTruthful
<1>1. Base /\ Answered => EvidenceTruthful
  <2> SUFFICES ASSUME Base, Answered PROVE EvidenceTruthful
    OBVIOUS
  <2> USE ConstantsAssumption
  <2>1. Readable
    BY DEF Readable, Corrupt, Record, Base, Types, Answered
  <2>2. ASSUME NEW r \in Request, pc[r] = "done"
        PROVE  Cardinality(Recorded(r)) \in
                 CASE status[r] = "200" -> {1} [] status[r] = "cut" -> {0, 1}
                   [] OTHER -> {0}
    <3>1. Told(r) /\ pc[r] \in Over /\ pc[r] \notin Committed
      BY <2>2 DEF Answered, Over, Committed, Projections
    <3>2. ~InFile(r) => Cardinality(Recorded(r)) = 0
      <4>1. ~InFile(r) => Recorded(r) = {}
        BY DEF InFile, Recorded
      <4>2. QED BY <4>1, FS_EmptySet
    <3>3. InFile(r) => Cardinality(Recorded(r)) = 1
      <4>1. SUFFICES ASSUME InFile(r) PROVE Cardinality(Recorded(r)) = 1
        OBVIOUS
      <4>2. PICK i \in DOMAIN lines : lines[i].of = r
        BY <4>1 DEF InFile
      <4>3. Recorded(r) = {i}
        BY <4>2 DEF Recorded, Answered
      <4>4. QED BY <4>3, FS_Singleton
    <3>4. CASE status[r] = "200"
      BY <3>1, <3>3, <3>4 DEF Told
    <3>5. CASE status[r] = "cut"
      BY <3>2, <3>3, <3>5
    <3>6. CASE status[r] \notin {"200", "cut"}
      BY <3>1, <3>2, <3>6 DEF Told
    <3>7. QED BY <3>4, <3>5, <3>6
  <2>3. QED BY <2>1, <2>2 DEF EvidenceTruthful
<1>2. QED BY <1>1, All, PTL

(***************************************************************************)
(* The file is closed after the last handler, and an orderly stop cuts     *)
(* nobody off.                                                             *)
(***************************************************************************)
THEOREM Drain == Spec => []DrainedBeforeClose
<1>1. Base => DrainedBeforeClose
  BY DEF Base, Stopping, DrainedBeforeClose, Up
<1>2. QED BY <1>1, All, PTL
=============================================================================
