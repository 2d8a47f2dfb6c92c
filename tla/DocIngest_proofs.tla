-------------------------- MODULE DocIngest_proofs --------------------------
(***************************************************************************)
(* Theorems of DocIngest: its types, the contract it implements, what the    *)
(* duplicate checks rest on, and what the last writer of a document leaves.   *)
(***************************************************************************)
EXTENDS DocIngest, TLAPS

(***************************************************************************)
(* What a call's step says about its document, its writers and its answer.   *)
(***************************************************************************)
CallOK(c) ==
    /\ calls[c].pc = "idle" => calls[c] = IdleCall
    /\ calls[c].pc # "idle" => /\ calls[c].kb \in KBs
                               /\ calls[c].doc \in Docs
                               /\ calls[c].content \in Contents
                               /\ calls[c].run \in RunIds
    /\ calls[c].pc \in {"check", "enroll", "index", "prepare"} =>
          calls[c].vec = "off" /\ calls[c].graph = "off"
    /\ calls[c].pc \notin {"idle", "store"} /\ "run" \in {calls[c].vec, calls[c].graph} =>
          calls[c].result = "failed"
    /\ calls[c].pc = "register" => calls[c].vec = "done" /\ calls[c].graph = "done"
    /\ calls[c].result = "none" <=> calls[c].pc # "done"
    /\ calls[c].result \in {"refused", "duplicate"} =>
          calls[c].vec = "off" /\ calls[c].graph = "off"
    /\ calls[c].result = "ok" => calls[c].vec = "done" /\ calls[c].graph = "done"

RunOK(r) == runs[r].live => runs[r].kb \in KBs

CInv == TypeOK /\ (\A c \in CallIds : CallOK(c)) /\ (\A r \in RunIds : RunOK(r))

USE NoneAssumption, ChunkAssumption, BoundAssumption

LEMMA CInvInit == Init => CInv
  BY DEF Init, CInv, TypeOK, CallOK, RunOK, IdleCall, NoRun, CallType, RunType,
         Steps, Results, Writers, Modes

\* One call moves: the others and the runs keep what they satisfy.
LEMMA OneCallMoves ==
  ASSUME CInv, NEW c \in CallIds, NEW call \in CallType,
         calls' = [calls EXCEPT ![c] = call],
         UNCHANGED <<boot, hasIndex, runs>>,
         hashOf' \in [Contents -> Docs \cup {None}],
         known' \subseteq Docs,
         cache' \in [KBs -> SUBSET Contents],
         points' \in [KBs -> [Docs -> [Positions -> Contents \cup {None}]]],
         CallOK(c)'
  PROVE  CInv'
<1>1. TypeOK'
  BY DEF CInv, TypeOK
<1>2. \A e \in CallIds : CallOK(e)'
  <2> TAKE e \in CallIds
  <2>1. CASE e = c
    BY <2>1
  <2>2. CASE e # c
    <3>1. calls'[e] = calls[e]
      BY <2>2 DEF CInv, TypeOK
    <3> QED
      BY <3>1 DEF CInv, CallOK
  <2> QED
    BY <2>1, <2>2
<1>3. \A r \in RunIds : RunOK(r)'
  BY DEF CInv, RunOK
<1> QED
  BY <1>1, <1>2, <1>3 DEF CInv

(***************************************************************************)
(* The pieces of the steps.                                                  *)
(***************************************************************************)
LEMMA AfterGateType ==
  ASSUME NEW run \in RunType, NEW x \in Contents, NEW after \in AfterGate(run, x)
  PROVE  /\ after.pc \in {"check", "enroll", "index", "prepare", "done"}
         /\ after.result \in {"none", "refused", "duplicate"}
         /\ after.result = "none" <=> after.pc # "done"
  BY DEF AfterGate

LEMMA UpsertedType ==
  ASSUME CInv, NEW c \in CallIds, calls[c].pc # "idle"
  PROVE  Upserted(c) \in [KBs -> [Docs -> [Positions -> Contents \cup {None}]]]
<1> DEFINE new == {Place(calls[c].content, n) : n \in Batch(c)}
           row == [i \in Positions |-> IF i \in new THEN calls[c].content
                                       ELSE points[calls[c].kb][calls[c].doc][i]]
<1>1. /\ calls[c].kb \in KBs
      /\ calls[c].doc \in Docs
      /\ calls[c].content \in Contents
      /\ points \in [KBs -> [Docs -> [Positions -> Contents \cup {None}]]]
  BY DEF CInv, CallOK, TypeOK
<1>2. row \in [Positions -> Contents \cup {None}]
  BY <1>1
<1>3. Upserted(c) = [points EXCEPT ![calls[c].kb][calls[c].doc] = row]
  BY DEF Upserted
<1> HIDE DEF row
<1> QED
  BY <1>1, <1>2, <1>3

LEMMA RegisteredType ==
  ASSUME CInv, NEW c \in CallIds, calls[c].pc # "idle"
  PROVE  Registered(c) \in [KBs -> SUBSET Contents]
  BY DEF CInv, CallOK, TypeOK, Registered

LEMMA IngestKeepsCInv ==
  ASSUME CInv, NEW c \in CallIds, NEW r \in RunIds, NEW run \in RunType,
         NEW d \in Docs, NEW x \in Contents,
         run.kb \in KBs, Ingest(c, r, run, d, x)
  PROVE  CInv'
<1>1. PICK after \in AfterGate(run, x) :
         LET others == Beside(run.kb, d)
             call == [IdleCall EXCEPT !.pc = after.pc, !.result = after.result,
                                      !.run = r, !.kb = run.kb, !.doc = d,
                                      !.content = x, !.alone = (others = {}),
                                      !.entered = (after.pc = "index")]
         IN  /\ calls' = [e \in CallIds |->
                             IF e = c THEN call
                             ELSE IF e \in others THEN [calls[e] EXCEPT !.alone = FALSE]
                             ELSE calls[e]]
             /\ hashOf' = IF after.pc = "index" THEN [hashOf EXCEPT ![x] = d] ELSE hashOf
  BY DEF Ingest
<1>2. /\ after.pc \in {"check", "enroll", "index", "prepare", "done"}
      /\ after.result \in {"none", "refused", "duplicate"}
      /\ after.result = "none" <=> after.pc # "done"
  BY AfterGateType
<1> DEFINE single == Beside(run.kb, d) = {}
           entering == after.pc = "index"
           call == [IdleCall EXCEPT !.pc = after.pc, !.result = after.result,
                                    !.run = r, !.kb = run.kb, !.doc = d,
                                    !.content = x, !.alone = single,
                                    !.entered = entering]
<1>3. single \in BOOLEAN /\ entering \in BOOLEAN
  OBVIOUS
<1>4. /\ call \in CallType
      /\ call.pc = after.pc /\ call.result = after.result /\ call.run = r
      /\ call.kb = run.kb /\ call.doc = d /\ call.content = x
      /\ call.vec = "off" /\ call.graph = "off"
  <2> HIDE DEF single, entering
  <2>1. IdleCall \in CallType /\ IdleCall.vec = "off" /\ IdleCall.graph = "off"
    BY DEF IdleCall, CallType, Steps, Results, Writers
  <2>2. /\ after.pc \in Steps /\ after.result \in Results
        /\ r \in 0 .. MaxRuns
    BY <1>2 DEF Steps, Results, RunIds
  <2> HIDE DEF single, entering
  <2> QED
    BY <1>3, <2>1, <2>2 DEF CallType
<1>5. calls'[c] = call
  BY <1>1
<1>6. ASSUME NEW e \in CallIds, e # c
      PROVE  /\ calls'[e] \in CallType
             /\ calls'[e] = calls[e] \/ calls'[e] = [calls[e] EXCEPT !.alone = FALSE]
             /\ calls[e].pc = "idle" => calls'[e] = calls[e]
  <2>1. calls[e] \in CallType
    BY DEF CInv, TypeOK
  <2>2. calls[e].pc = "idle" => e \notin Beside(run.kb, d)
    BY DEF Beside, Busy, Writing, CInv, CallOK, IdleCall
  <2> QED
    BY <1>1, <1>6, <2>1, <2>2 DEF CallType
<1>7. \A e \in CallIds : CallOK(e)'
  <2> TAKE e \in CallIds
  <2>1. CASE e = c
    <3> HIDE DEF call
    <3> QED
      BY <1>2, <1>4, <1>5, <2>1 DEF CallOK
  <2>2. CASE e # c
    <3>1. CASE calls'[e] = calls[e]
      BY <3>1 DEF CInv, CallOK
    <3>2. CASE calls'[e] = [calls[e] EXCEPT !.alone = FALSE] /\ calls[e].pc # "idle"
      BY <3>2 DEF CInv, CallOK, TypeOK, CallType
    <3> QED
      BY <1>6, <2>2, <3>1, <3>2
  <2> QED
    BY <2>1, <2>2
<1>8. calls' \in [CallIds -> CallType]
  <2>1. \A e \in CallIds : calls'[e] \in CallType
    BY <1>4, <1>5, <1>6
  <2> QED
    BY <1>1, <2>1
<1>9. hashOf' \in [Contents -> Docs \cup {None}]
  BY <1>1 DEF CInv, TypeOK
<1>10. runs' \in [RunIds -> RunType] /\ \A q \in RunIds : RunOK(q)'
  <2>1. PICK new \in RunType : runs' = [runs EXCEPT ![r] = new] /\ new.kb = run.kb
    <3>1. CASE run.mode = "none"
      BY <3>1 DEF Ingest
    <3>2. CASE run.mode # "none"
      <4>1. [run EXCEPT !.seen = run.seen \cup {x}] \in RunType
        BY DEF RunType
      <4> QED
        BY <3>2, <4>1 DEF Ingest, RunType
    <3> QED
      BY <3>1, <3>2
  <2> QED
    BY <2>1 DEF CInv, TypeOK, RunOK
<1> QED
  BY <1>7, <1>8, <1>9, <1>10 DEF CInv, TypeOK, Ingest

LEMMA CutOffKeepsCInv ==
  ASSUME CInv, NEW dead \in SUBSET RunIds, CutOff(dead)
  PROVE  /\ calls' \in [CallIds -> CallType] /\ runs' \in [RunIds -> RunType]
         /\ \A c \in CallIds : CallOK(c)'
         /\ \A r \in RunIds : RunOK(r)'
<1>1. ASSUME NEW c \in CallIds
      PROVE  calls'[c] \in CallType /\ CallOK(c)'
  <2>1. calls[c] \in CallType /\ CallOK(c)
    BY DEF CInv, TypeOK
  <2>2. CASE calls[c].run \notin dead
    BY <2>1, <2>2 DEF CutOff, CallOK
  <2>3. CASE calls[c].run \in dead
    <3>1. calls[c].pc # "idle"
      BY <2>1, <2>3 DEF CallOK, IdleCall, RunIds
    <3>2. calls'[c] = [calls[c] EXCEPT
                            !.pc = "done",
                            !.result = IF calls[c].pc = "done" THEN @ ELSE "lost",
                            !.vec = IF @ = "run" THEN "cut" ELSE @,
                            !.graph = IF @ = "run" THEN "cut" ELSE @]
      BY <2>3 DEF CutOff
    <3> DEFINE res == IF calls[c].pc = "done" THEN calls[c].result ELSE "lost"
               v == IF calls[c].vec = "run" THEN "cut" ELSE calls[c].vec
               g == IF calls[c].graph = "run" THEN "cut" ELSE calls[c].graph
    <3>3. calls'[c] = [calls[c] EXCEPT !.pc = "done", !.result = res, !.vec = v,
                                       !.graph = g]
      BY <3>2, <2>1 DEF CallType
    <3>7. res \in Results /\ v \in Writers /\ g \in Writers /\ "done" \in Steps
      BY <2>1 DEF CallType, Results, Writers, Steps
    <3>5. calls'[c] \in CallType
      <4> HIDE DEF res, v, g
      <4> QED
        BY <2>1, <3>3, <3>7 DEF CallType
    <3>4. /\ calls'[c].pc = "done"
          /\ calls'[c].result = IF calls[c].pc = "done" THEN calls[c].result ELSE "lost"
          /\ calls'[c].vec = IF calls[c].vec = "run" THEN "cut" ELSE calls[c].vec
          /\ calls'[c].graph = IF calls[c].graph = "run" THEN "cut" ELSE calls[c].graph
          /\ calls'[c].kb = calls[c].kb /\ calls'[c].doc = calls[c].doc
          /\ calls'[c].content = calls[c].content /\ calls'[c].run = calls[c].run
      BY <2>1, <3>2 DEF CallType
    <3>6. CallOK(c)'
      <4> HIDE DEF CutOff
      <4> QED
        BY <2>1, <3>1, <3>4, SMTT(60) DEF CallOK
    <3> QED
      BY <3>5, <3>6
  <2> QED
    BY <2>2, <2>3
<1>2. ASSUME NEW r \in RunIds
      PROVE  runs'[r] \in RunType /\ RunOK(r)'
  <2>1. runs[r] \in RunType /\ RunOK(r)
    BY DEF CInv, TypeOK
  <2> QED
    BY <2>1 DEF CutOff, RunOK, RunType
<1> QED
  BY <1>1, <1>2 DEF CutOff

(***************************************************************************)
(* The invariant is kept by every step: one step of one call, a call that is *)
(* made, or a process that dies.                                              *)
(***************************************************************************)
LEMMA GotoKeepsCInv ==
  ASSUME CInv, NEW c \in CallIds, NEW pc \in Steps,
         Goto(c, pc),
         calls[c].pc \notin {"idle", "done"}, pc \notin {"idle", "done"},
         pc \in {"check", "enroll", "index", "prepare"} =>
            calls[c].pc \in {"check", "enroll", "index", "prepare"},
         pc = "register" => calls[c].vec = "done" /\ calls[c].graph = "done",
         pc # "store",
         UNCHANGED <<boot, hasIndex, cache, points, runs>>,
         hashOf' \in [Contents -> Docs \cup {None}],
         known' \subseteq Docs
  PROVE  CInv'
<1> DEFINE call == [calls[c] EXCEPT !.pc = pc]
<1>1. calls[c] \in CallType /\ CallOK(c)
  BY DEF CInv, TypeOK
<1>2. call \in CallType
  BY <1>1 DEF CallType
<1>3. calls' = [calls EXCEPT ![c] = call]
  BY DEF Goto, CInv, TypeOK
<1>4. CallOK(c)'
  <2>1. calls'[c] = call
    BY <1>3 DEF CInv, TypeOK
  <2> QED
    BY <1>1, <2>1 DEF CallOK, CallType, Steps
<1> HIDE DEF call
<1> QED
  BY <1>2, <1>3, <1>4, OneCallMoves DEF CInv, TypeOK

LEMMA EndKeepsCInv ==
  ASSUME CInv, NEW c \in CallIds, NEW result \in Results,
         End(c, result),
         calls[c].pc \notin {"idle", "done"}, result # "none",
         result \in {"refused", "duplicate"} =>
            calls[c].pc \in {"check", "enroll", "index", "prepare"},
         result = "ok" => calls[c].vec = "done" /\ calls[c].graph = "done",
         "run" \in {calls[c].vec, calls[c].graph} => result = "failed",
         UNCHANGED <<boot, hasIndex, hashOf, known, points, runs>>,
         cache' \in [KBs -> SUBSET Contents]
  PROVE  CInv'
<1> DEFINE call == [calls[c] EXCEPT !.pc = "done", !.result = result]
<1>1. calls[c] \in CallType /\ CallOK(c)
  BY DEF CInv, TypeOK
<1>2. call \in CallType
  BY <1>1 DEF CallType, Steps
<1>3. calls' = [calls EXCEPT ![c] = call]
  BY DEF End, CInv, TypeOK
<1>4. CallOK(c)'
  <2>1. calls'[c] = call
    BY <1>3 DEF CInv, TypeOK
  <2> QED
    BY <1>1, <2>1 DEF CallOK, CallType
<1> HIDE DEF call
<1> QED
  BY <1>2, <1>3, <1>4, OneCallMoves DEF CInv, TypeOK

LEMMA WriterKeepsCInv ==
  ASSUME CInv, NEW c \in CallIds, NEW next \in Nat,
         NEW vec \in Writers, NEW graph \in Writers,
         calls[c].vec = "run" \/ calls[c].graph = "run",
         vec = "run" => calls[c].vec = "run",
         graph = "run" => calls[c].graph = "run",
         calls[c].vec \in {"done", "run"} \/ calls[c].pc # "register",
         calls' = [calls EXCEPT ![c] = [calls[c] EXCEPT !.next = next, !.vec = vec,
                                                        !.graph = graph]],
         UNCHANGED <<boot, hasIndex, hashOf, known, cache, runs>>,
         points' \in [KBs -> [Docs -> [Positions -> Contents \cup {None}]]]
  PROVE  CInv'
<1> DEFINE call == [calls[c] EXCEPT !.next = next, !.vec = vec, !.graph = graph]
<1>1. calls[c] \in CallType /\ CallOK(c)
  BY DEF CInv, TypeOK
<1>2. call \in CallType
  BY <1>1 DEF CallType
<1>3. calls[c].pc # "idle"
  BY <1>1 DEF CallOK, IdleCall
<1>4. CallOK(c)'
  <2>1. calls'[c] = call
    BY DEF CInv, TypeOK
  <2> QED
    BY <1>1, <1>3, <2>1 DEF CallOK, CallType
<1> HIDE DEF call
<1> QED
  BY <1>2, <1>4, OneCallMoves DEF CInv, TypeOK, call

LEMMA PrepareKeepsCInv ==
  ASSUME CInv, NEW c \in CallIds, Prepare(c)
  PROVE  CInv'
<1> DEFINE call == [calls[c] EXCEPT !.pc = "store", !.vec = "run", !.graph = "run"]
<1>1. calls[c] \in CallType /\ CallOK(c) /\ calls[c].pc = "prepare"
  BY DEF CInv, TypeOK, Prepare
<1>2. CASE End(c, "refused")
  BY <1>1, <1>2, EndKeepsCInv DEF Prepare, Results, CallOK, CInv, TypeOK
<1>3. CASE End(c, "failed")
  BY <1>1, <1>3, EndKeepsCInv DEF Prepare, Results, CallOK, CInv, TypeOK
<1>4. CASE calls' = [calls EXCEPT ![c] = call]
  <2>1. call \in CallType
    BY <1>1 DEF CallType, Steps, Writers
  <2>2. calls'[c] = call
    BY <1>4 DEF CInv, TypeOK
  <2>3. CallOK(c)'
    BY <1>1, <2>2 DEF CallOK, CallType
  <2> HIDE DEF call
  <2> QED
    BY <1>4, <2>1, <2>3, OneCallMoves DEF Prepare, CInv, TypeOK
<1> QED
  BY <1>2, <1>3, <1>4 DEF Prepare

LEMMA StepKeepsCInv ==
  ASSUME CInv, NEW c \in CallIds, Step(c) \/ Fault(c)
  PROVE  CInv'
<1>1. calls[c] \in CallType /\ CallOK(c) /\ TypeOK
  BY DEF CInv, TypeOK
<1>2. CASE Enroll(c)
  <2> DEFINE call == [calls[c] EXCEPT !.pc = "index", !.entered = TRUE]
  <2>1. call \in CallType
    BY <1>1 DEF CallType, Steps
  <2>2. calls' = [calls EXCEPT ![c] = call] /\ calls'[c] = call
    BY <1>1, <1>2 DEF Enroll, TypeOK
  <2>3. CallOK(c)'
    BY <1>1, <1>2, <2>2 DEF CallOK, CallType, Enroll
  <2>4. hashOf' \in [Contents -> Docs \cup {None}]
    BY <1>1, <1>2 DEF CallOK, Enroll, TypeOK
  <2> HIDE DEF call
  <2> QED
    BY <1>2, <2>1, <2>2, <2>3, <2>4, OneCallMoves DEF Enroll, CInv, TypeOK
<1>3. CASE IndexDoc(c)
  BY <1>1, <1>3, GotoKeepsCInv DEF IndexDoc, CallOK, TypeOK, Steps
<1>4. CASE CheckCache(c)
  BY <1>1, <1>4, GotoKeepsCInv, EndKeepsCInv
     DEF CheckCache, CallOK, TypeOK, Steps, Results
<1>5. CASE CacheFault(c)
  BY <1>1, <1>5, GotoKeepsCInv, EndKeepsCInv
     DEF CacheFault, CallOK, TypeOK, Steps, Results
<1>6. CASE Prepare(c)
  BY <1>6, PrepareKeepsCInv
<1>7. ASSUME "run" \in {calls[c].vec, calls[c].graph}
      PROVE  /\ Upserted(c) \in [KBs -> [Docs -> [Positions -> Contents \cup {None}]]]
             /\ calls[c].pc \notin {"idle", "register"}
  BY <1>1, <1>7, UpsertedType DEF CallOK, IdleCall
<1>8. CASE VecWrite(c)
  <2> DEFINE next == calls[c].next + BatchSize
             vec == IF next > ChunkCount[calls[c].content] + 1 THEN "done" ELSE "run"
  <2>1. next \in Nat /\ vec \in Writers
    BY <1>1 DEF CallType, Writers
  <2>2. calls' = [calls EXCEPT ![c] = [calls[c] EXCEPT !.next = next, !.vec = vec,
                                                        !.graph = calls[c].graph]]
    BY <1>1, <1>8 DEF VecWrite, CallType
  <2>3. calls[c].graph \in Writers /\ calls[c].vec = "run"
    BY <1>1, <1>8 DEF VecWrite, CallType
  <2>4. /\ points' \in [KBs -> [Docs -> [Positions -> Contents \cup {None}]]]
        /\ UNCHANGED <<boot, hasIndex, hashOf, known, cache, runs>>
    BY <1>7, <1>8 DEF VecWrite
  <2> HIDE DEF next, vec
  <2> QED
    BY <1>1, <1>7, <2>1, <2>2, <2>3, <2>4, WriterKeepsCInv
<1>9. CASE VecFail(c)
  <2>1. calls' = [calls EXCEPT ![c] = [calls[c] EXCEPT !.next = calls[c].next,
                                         !.vec = "error", !.graph = calls[c].graph]]
    BY <1>1, <1>9 DEF VecFail, CallType
  <2>2. calls[c].graph \in Writers /\ calls[c].vec = "run" /\ calls[c].next \in Nat
        /\ "error" \in Writers
    BY <1>1, <1>9 DEF VecFail, CallType, Writers
  <2>3. /\ points' \in [KBs -> [Docs -> [Positions -> Contents \cup {None}]]]
        /\ UNCHANGED <<boot, hasIndex, hashOf, known, cache, runs>>
    BY <1>1, <1>7, <1>9 DEF VecFail, TypeOK
  <2> QED
    BY <1>1, <1>7, <2>1, <2>2, <2>3, WriterKeepsCInv
<1>10. ASSUME GraphWrite(c) \/ GraphFail(c)
       PROVE  CInv'
  <2>1. PICK graph \in {"done", "error"} : calls' = [calls EXCEPT ![c].graph = graph]
    BY <1>10 DEF GraphWrite, GraphFail
  <2>2. calls' = [calls EXCEPT ![c] = [calls[c] EXCEPT !.next = calls[c].next,
                                         !.vec = calls[c].vec, !.graph = graph]]
    BY <1>1, <2>1 DEF CallType
  <2>3. calls[c].vec \in Writers /\ calls[c].graph = "run" /\ calls[c].next \in Nat
        /\ graph \in Writers
    BY <1>1, <1>10 DEF GraphWrite, GraphFail, CallType, Writers
  <2>4. UNCHANGED <<boot, hasIndex, hashOf, known, cache, points, runs>>
    BY <1>10 DEF GraphWrite, GraphFail
  <2> QED
    BY <1>1, <1>7, <2>2, <2>3, <2>4, WriterKeepsCInv DEF TypeOK
<1>11. CASE Stored(c)
  BY <1>1, <1>11, GotoKeepsCInv, EndKeepsCInv
     DEF Stored, CallOK, TypeOK, Steps, Results
<1>12. CASE StoreFails(c)
  BY <1>1, <1>12, EndKeepsCInv DEF StoreFails, CallOK, TypeOK, Results
<1>13. ASSUME Register(c) \/ RegisterFault(c)
       PROVE  CInv'
  <2>1. /\ calls[c].pc = "register"
        /\ cache' \in {cache, Registered(c)}
        /\ End(c, "ok") \/ End(c, "failed")
        /\ UNCHANGED <<boot, hasIndex, hashOf, known, points, runs>>
    BY <1>13 DEF Register, RegisterFault
  <2>2. cache' \in [KBs -> SUBSET Contents]
    BY <1>1, <2>1, RegisteredType DEF TypeOK
  <2> QED
    BY <1>1, <2>1, <2>2, EndKeepsCInv DEF CallOK, Results
<1> QED
  BY <1>2, <1>3, <1>4, <1>5, <1>6, <1>8, <1>9, <1>10, <1>11, <1>12, <1>13
     DEF Step, Fault

LEMMA CInvStep == CInv /\ [Next]_vars => CInv'
<1> SUFFICES ASSUME CInv, [Next]_vars
             PROVE  CInv'
  OBVIOUS
<1>1. TypeOK /\ \A r \in RunIds : RunOK(r) /\ runs[r] \in RunType
  BY DEF CInv, TypeOK
<1>2. ASSUME NEW c \in CallIds, NEW r \in RunIds, NEW k \in KBs, NEW d \in Docs,
             NEW x \in Contents, FirstDocument(c, r, k, d, x)
      PROVE  CInv'
  <2>1. PICK mode \in {"none", IF hasIndex THEN "index" ELSE "cache"}, force \in BOOLEAN :
          Ingest(c, r, [mode |-> mode, force |-> force, kb |-> k, boot |-> boot,
                        live |-> TRUE, seen |-> {}], d, x)
    BY <1>2 DEF FirstDocument
  <2> DEFINE run == [mode |-> mode, force |-> force, kb |-> k, boot |-> boot,
                     live |-> TRUE, seen |-> {}]
  <2>2. run \in RunType /\ run.kb = k
    BY <1>1 DEF RunType, Modes, TypeOK
  <2> HIDE DEF run
  <2> QED
    BY <2>1, <2>2, IngestKeepsCInv DEF run
<1>3. ASSUME NEW c \in CallIds, NEW r \in RunIds, NEW d \in Docs, NEW x \in Contents,
             NextDocument(c, r, d, x)
      PROVE  CInv'
  BY <1>1, <1>3, IngestKeepsCInv DEF NextDocument, RunOK
<1>4. ASSUME NEW dead \in SUBSET RunIds, CutOff(dead),
             boot' \in 1 .. MaxBoots, hasIndex' \in BOOLEAN,
             hashOf' \in [Contents -> Docs \cup {None}], known' \subseteq Docs,
             UNCHANGED <<cache, points>>
      PROVE  CInv'
  BY <1>1, <1>4, CutOffKeepsCInv DEF CInv, TypeOK
<1>5. CASE RestartApi
  <2>1. boot' \in 1 .. MaxBoots
    BY <1>1, <1>5 DEF RestartApi, TypeOK
  <2> QED
    BY <1>4, <1>5, <2>1 DEF RestartApi
<1>6. ASSUME NEW r \in RunIds, CliDies(r) PROVE CInv'
  BY <1>1, <1>4, <1>6 DEF CliDies, TypeOK
<1>7. CASE UNCHANGED vars
  BY <1>7 DEF vars, CInv, TypeOK, CallOK, RunOK
<1> QED
  BY <1>2, <1>3, <1>5, <1>6, <1>7, StepKeepsCInv DEF Next

(***************************************************************************)
(* Every reachable state is type correct, for any documents, contents, batch *)
(* size, runs, calls and crashes.                                             *)
(***************************************************************************)
THEOREM TypeCorrect == Spec => []TypeOK
<1>1. CInv => TypeOK
  BY DEF CInv
<1> QED
  BY CInvInit, CInvStep, <1>1, PTL DEF Spec

-----------------------------------------------------------------------------
(* The contract *)

LEMMA ContractInit == Init => Contract!Init
  BY DEF Init, Contract!Init, Contract!Nothing, What, Verdict, Whole, IdleCall

\* The verdict the contract sees in the record of a call.
VerdictOf(call) ==
    IF call.pc = "idle" THEN "none"
    ELSE IF call.result = "none" THEN "open"
    ELSE IF call.result = "duplicate" THEN "refused"
    ELSE call.result

\* What the contract sees of a step of one call.
LEMMA SeenOfOneCall ==
  ASSUME CInv, NEW c \in CallIds, NEW call \in CallType,
         calls' = [calls EXCEPT ![c] = call],
         call.kb = calls[c].kb, call.doc = calls[c].doc, call.content = calls[c].content,
         calls[c].pc # "idle", call.pc # "idle"
  PROVE  /\ What' = What
         /\ Verdict' = [Verdict EXCEPT ![c] = VerdictOf(call)]
         /\ Whole' = {e \in CallIds : IF e = c THEN call.vec = "done" /\ call.graph = "done"
                                      ELSE e \in Whole}
<1>1. \A e \in CallIds : calls'[e] = IF e = c THEN call ELSE calls[e]
  BY DEF CInv, TypeOK
<1>2. What' = What
  BY <1>1 DEF What
<1>3. Verdict' = [Verdict EXCEPT ![c] = VerdictOf(call)]
  <2>1. /\ Verdict = [e \in CallIds |-> VerdictOf(calls[e])]
        /\ Verdict' = [e \in CallIds |-> VerdictOf(calls'[e])]
    BY DEF Verdict, VerdictOf
  <2> QED
    BY <1>1, <2>1
<1>4. Whole' = {e \in CallIds : IF e = c THEN call.vec = "done" /\ call.graph = "done"
                                      ELSE e \in Whole}
  BY <1>1 DEF Whole
<1> QED
  BY <1>2, <1>3, <1>4

LEMMA EndIsContract ==
  ASSUME CInv, NEW c \in CallIds, NEW result \in {"refused", "duplicate", "failed", "ok"},
         End(c, result), calls[c].pc \notin {"idle", "done"},
         result \in {"refused", "duplicate"} => calls[c].vec = "off",
         result = "ok" => c \in Whole,
         \/ cache' = cache
         \/ result \in {"ok", "failed"} /\ c \in Whole /\ cache' = Registered(c)
  PROVE  [Contract!Next]_(Contract!cvars)
<1> DEFINE call == [calls[c] EXCEPT !.pc = "done", !.result = result]
<1>1. calls[c] \in CallType /\ CallOK(c)
  BY DEF CInv, TypeOK
<1>2. call \in CallType
  BY <1>1 DEF CallType, Steps, Results
<1>3. calls' = [calls EXCEPT ![c] = call]
  BY DEF End
<1>4. /\ call.kb = calls[c].kb /\ call.doc = calls[c].doc /\ call.content = calls[c].content
      /\ call.pc = "done" /\ call.result = result
      /\ call.vec = calls[c].vec /\ call.graph = calls[c].graph
  BY <1>1 DEF CallType
<1> HIDE DEF call
<1>5. /\ What' = What
      /\ Verdict' = [Verdict EXCEPT ![c] = IF result = "duplicate" THEN "refused" ELSE result]
      /\ Whole' = {e \in CallIds : IF e = c THEN call.vec = "done" /\ call.graph = "done"
                                   ELSE e \in Whole}
  BY <1>2, <1>3, <1>4, SeenOfOneCall DEF VerdictOf
<1>6. Whole' = Whole
  BY <1>4, <1>5 DEF Whole
<1>7. Verdict[c] = "open"
  BY <1>1 DEF Verdict, CallOK
<1>8. Contract!MayRegister(c) \/ (result \in {"refused", "duplicate"} /\ cache' = cache)
  <2>1. CASE cache' = cache
    BY <2>1 DEF Contract!MayRegister
  <2>2. CASE result \in {"ok", "failed"} /\ c \in Whole /\ cache' = Registered(c)
    <3>1. What[c].kb = calls[c].kb /\ What[c].content = calls[c].content
      BY DEF What
    <3> QED
      BY <2>2, <3>1 DEF Contract!MayRegister, Registered
  <2> QED
    BY <2>1, <2>2
<1>9. CASE result \in {"refused", "duplicate"}
  <2>1. Contract!Refuse(c)
    BY <1>5, <1>6, <1>7, <1>9 DEF Contract!Refuse, Whole
  <2> QED
    BY <2>1 DEF Contract!Next
<1>10. CASE result = "failed"
  <2>1. Contract!Fail(c)
    BY <1>5, <1>6, <1>7, <1>8, <1>10 DEF Contract!Fail
  <2> QED
    BY <2>1 DEF Contract!Next
<1>11. CASE result = "ok"
  <2>1. Contract!Accept(c)
    BY <1>5, <1>6, <1>7, <1>8, <1>11 DEF Contract!Accept
  <2> QED
    BY <2>1 DEF Contract!Next
<1> QED
  BY <1>9, <1>10, <1>11

\* A step inside a call: nothing the contract sees, unless its document has just
\* become whole.
LEMMA InnerIsContract ==
  ASSUME CInv, NEW c \in CallIds, NEW call \in CallType,
         calls' = [calls EXCEPT ![c] = call],
         call.kb = calls[c].kb, call.doc = calls[c].doc, call.content = calls[c].content,
         calls[c].pc # "idle", call.pc # "idle", call.result = calls[c].result,
         c \in Whole => call.vec = "done" /\ call.graph = "done",
         "run" \in {calls[c].vec, calls[c].graph}
            \/ call.vec # "done" \/ call.graph # "done" \/ c \in Whole,
         cache' = cache
  PROVE  [Contract!Next]_(Contract!cvars)
<1>1. calls[c] \in CallType /\ CallOK(c)
  BY DEF CInv, TypeOK
<1>2. /\ What' = What
      /\ Verdict' = [Verdict EXCEPT ![c] = VerdictOf(call)]
      /\ Whole' = {e \in CallIds : IF e = c THEN call.vec = "done" /\ call.graph = "done"
                                   ELSE e \in Whole}
  BY SeenOfOneCall
<1>3. Verdict' = Verdict
  BY <1>2 DEF Verdict, VerdictOf
<1>4. CASE Whole' = Whole
  BY <1>2, <1>3, <1>4 DEF Contract!cvars
<1>5. CASE Whole' # Whole
  <2>1. Whole' = Whole \cup {c} /\ c \notin Whole
    BY <1>2, <1>5 DEF Whole
  <2>2. Verdict[c] \in {"open", "failed"}
    BY <1>1, <1>2, <2>1 DEF Verdict, CallOK
  <2>3. Contract!Store(c)
    BY <1>2, <1>3, <2>1, <2>2 DEF Contract!Store
  <2> QED
    BY <2>3 DEF Contract!Next
<1> QED
  BY <1>4, <1>5

LEMMA IngestIsContract ==
  ASSUME CInv, NEW c \in CallIds, NEW r \in RunIds, NEW run \in RunType,
         NEW d \in Docs, NEW x \in Contents,
         run.kb \in KBs, Ingest(c, r, run, d, x)
  PROVE  [Contract!Next]_(Contract!cvars)
<1>1. PICK after \in AfterGate(run, x) :
         LET others == Beside(run.kb, d)
             call == [IdleCall EXCEPT !.pc = after.pc, !.result = after.result,
                                      !.run = r, !.kb = run.kb, !.doc = d,
                                      !.content = x, !.alone = (others = {}),
                                      !.entered = (after.pc = "index")]
         IN  calls' = [e \in CallIds |->
                             IF e = c THEN call
                             ELSE IF e \in others THEN [calls[e] EXCEPT !.alone = FALSE]
                             ELSE calls[e]]
  BY DEF Ingest
<1>2. /\ after.pc \in {"check", "enroll", "index", "prepare", "done"}
      /\ after.result \in {"none", "refused", "duplicate"}
      /\ after.result = "none" <=> after.pc # "done"
  BY AfterGateType
<1>3. /\ calls[c].pc = "idle" /\ calls[c] = IdleCall
      /\ calls \in [CallIds -> CallType]
  BY DEF Ingest, CInv, CallOK, TypeOK
<1>4. /\ calls'[c].pc = after.pc /\ calls'[c].result = after.result
      /\ calls'[c].kb = run.kb /\ calls'[c].doc = d /\ calls'[c].content = x
      /\ calls'[c].vec = "off" /\ calls'[c].graph = "off"
  BY <1>1 DEF IdleCall
<1>5. ASSUME NEW e \in CallIds, e # c
      PROVE  /\ calls'[e].pc = calls[e].pc /\ calls'[e].result = calls[e].result
             /\ calls'[e].kb = calls[e].kb /\ calls'[e].doc = calls[e].doc
             /\ calls'[e].content = calls[e].content
             /\ calls'[e].vec = calls[e].vec /\ calls'[e].graph = calls[e].graph
  <2>1. calls'[e] = calls[e] \/ calls'[e] = [calls[e] EXCEPT !.alone = FALSE]
    BY <1>1, <1>5
  <2> QED
    BY <1>3, <2>1 DEF CallType
<1>6. What' = [What EXCEPT ![c] = [kb |-> run.kb, doc |-> d, content |-> x]]
  BY <1>4, <1>5 DEF What
<1>7. Verdict' = [Verdict EXCEPT ![c] = IF after.pc = "done" THEN "refused" ELSE "open"]
  <2>1. VerdictOf(calls'[c]) = IF after.pc = "done" THEN "refused" ELSE "open"
    BY <1>2, <1>4 DEF VerdictOf
  <2>2. \A e \in CallIds : e # c => VerdictOf(calls'[e]) = VerdictOf(calls[e])
    BY <1>5 DEF VerdictOf
  <2>3. /\ Verdict = [e \in CallIds |-> VerdictOf(calls[e])]
        /\ Verdict' = [e \in CallIds |-> VerdictOf(calls'[e])]
    BY DEF Verdict, VerdictOf
  <2> QED
    BY <2>1, <2>2, <2>3
<1>8. Whole' = Whole
  BY <1>3, <1>4, <1>5 DEF Whole, IdleCall
<1>9. Contract!Open(c)
  <2>1. Verdict[c] = "none"
    BY <1>3 DEF Verdict
  <2>2. [kb |-> run.kb, doc |-> d, content |-> x] \in Contract!Items
    BY DEF Contract!Items
  <2>3. cache' = cache
    BY DEF Ingest
  <2> QED
    BY <1>6, <1>7, <1>8, <2>1, <2>2, <2>3 DEF Contract!Open
<1> QED
  BY <1>9 DEF Contract!Next

LEMMA CutOffIsContract ==
  ASSUME CInv, NEW dead \in SUBSET RunIds, CutOff(dead), cache' = cache
  PROVE  [Contract!Next]_(Contract!cvars)
<1> DEFINE S == {c \in CallIds : calls[c].run \in dead /\ calls[c].pc # "done"}
<1>1. ASSUME NEW c \in CallIds
      PROVE  /\ calls'[c].kb = calls[c].kb /\ calls'[c].doc = calls[c].doc
             /\ calls'[c].content = calls[c].content
             /\ calls'[c].vec = "done" <=> calls[c].vec = "done"
             /\ calls'[c].graph = "done" <=> calls[c].graph = "done"
             /\ VerdictOf(calls'[c]) = IF c \in S THEN "lost" ELSE VerdictOf(calls[c])
             /\ c \in S => VerdictOf(calls[c]) = "open"
  <2>1. calls[c] \in CallType /\ CallOK(c)
    BY DEF CInv, TypeOK
  <2>2. CASE calls[c].run \notin dead
    BY <2>1, <2>2 DEF CutOff
  <2>3. CASE calls[c].run \in dead
    <3>1. calls[c].pc # "idle"
      BY <2>1, <2>3 DEF CallOK, IdleCall, RunIds
    <3>2. calls'[c] = [calls[c] EXCEPT
                            !.pc = "done",
                            !.result = IF calls[c].pc = "done" THEN @ ELSE "lost",
                            !.vec = IF @ = "run" THEN "cut" ELSE @,
                            !.graph = IF @ = "run" THEN "cut" ELSE @]
      BY <2>3 DEF CutOff
    <3>3. /\ calls'[c].pc = "done"
          /\ calls'[c].result = IF calls[c].pc = "done" THEN calls[c].result ELSE "lost"
          /\ calls'[c].vec = IF calls[c].vec = "run" THEN "cut" ELSE calls[c].vec
          /\ calls'[c].graph = IF calls[c].graph = "run" THEN "cut" ELSE calls[c].graph
          /\ calls'[c].kb = calls[c].kb /\ calls'[c].doc = calls[c].doc
          /\ calls'[c].content = calls[c].content
      BY <2>1, <3>2 DEF CallType
    <3> QED
      BY <2>1, <2>3, <3>1, <3>3 DEF CallOK, VerdictOf
  <2> QED
    BY <2>2, <2>3
<1> HIDE DEF S
<1>2. What' = What
  BY <1>1 DEF What
<1>3. Whole' = Whole
  BY <1>1 DEF Whole
<1>4. /\ Verdict = [e \in CallIds |-> VerdictOf(calls[e])]
      /\ Verdict' = [e \in CallIds |-> VerdictOf(calls'[e])]
  BY DEF Verdict, VerdictOf
<1>5. Verdict' = [c \in CallIds |-> IF c \in S THEN "lost" ELSE Verdict[c]]
  BY <1>1, <1>4
<1>6. S \in SUBSET {c \in CallIds : Verdict[c] = "open"}
  BY <1>1, <1>4 DEF S
<1>7. Contract!Lose
  BY <1>2, <1>3, <1>5, <1>6 DEF Contract!Lose
<1> QED
  BY <1>7 DEF Contract!Next

LEMMA StepIsContract ==
  ASSUME CInv, NEW c \in CallIds, Step(c) \/ Fault(c)
  PROVE  [Contract!Next]_(Contract!cvars)
<1>1. calls[c] \in CallType /\ CallOK(c)
  BY DEF CInv, TypeOK
<1>2. ASSUME NEW pc \in Steps \ {"idle"}, Goto(c, pc), cache' = cache,
             calls[c].pc \notin {"idle", "done"}, calls[c].vec # "run", calls[c].graph # "run"
      PROVE  [Contract!Next]_(Contract!cvars)
  <2> DEFINE call == [calls[c] EXCEPT !.pc = pc]
  <2>1. call \in CallType /\ call.pc = pc /\ call.result = calls[c].result
        /\ call.kb = calls[c].kb /\ call.doc = calls[c].doc
        /\ call.content = calls[c].content
        /\ call.vec = calls[c].vec /\ call.graph = calls[c].graph
    BY <1>1 DEF CallType
  <2>2. calls' = [calls EXCEPT ![c] = call]
    BY <1>2 DEF Goto
  <2> HIDE DEF call
  <2> QED
    BY <1>2, <2>1, <2>2, InnerIsContract DEF Whole
<1>3. CASE Enroll(c)
  <2> DEFINE call == [calls[c] EXCEPT !.pc = "index", !.entered = TRUE]
  <2>1. call \in CallType /\ call.pc = "index" /\ call.result = calls[c].result
        /\ call.kb = calls[c].kb /\ call.doc = calls[c].doc
        /\ call.content = calls[c].content
        /\ call.vec = calls[c].vec /\ call.graph = calls[c].graph
    BY <1>1 DEF CallType, Steps
  <2>2. calls' = [calls EXCEPT ![c] = call] /\ calls[c].pc # "idle" /\ cache' = cache
        /\ calls[c].vec = "off"
    BY <1>1, <1>3 DEF Enroll, CallOK
  <2> HIDE DEF call
  <2> QED
    BY <2>1, <2>2, InnerIsContract DEF Whole
<1>4. CASE IndexDoc(c)
  BY <1>1, <1>2, <1>4 DEF IndexDoc, CallOK, Steps
<1>5. CASE CheckCache(c)
  BY <1>1, <1>2, <1>5, EndIsContract DEF CheckCache, CallOK, Steps
<1>6. CASE CacheFault(c)
  BY <1>1, <1>2, <1>6, EndIsContract DEF CacheFault, CallOK, Steps
<1>7. CASE Prepare(c)
  <2> DEFINE call == [calls[c] EXCEPT !.pc = "store", !.vec = "run", !.graph = "run"]
  <2>1. CASE End(c, "refused") \/ End(c, "failed")
    BY <1>1, <1>7, <2>1, EndIsContract DEF Prepare, CallOK
  <2>2. CASE calls' = [calls EXCEPT ![c] = call]
    <3>1. call \in CallType /\ call.pc = "store" /\ call.result = calls[c].result
          /\ call.kb = calls[c].kb /\ call.doc = calls[c].doc
          /\ call.content = calls[c].content /\ call.vec = "run"
      BY <1>1 DEF CallType, Steps, Writers
    <3>2. calls[c].pc # "idle" /\ cache' = cache /\ calls[c].vec = "off"
      BY <1>1, <1>7 DEF Prepare, CallOK
    <3> HIDE DEF call
    <3> QED
      BY <2>2, <3>1, <3>2, InnerIsContract DEF Whole
  <2> QED
    BY <1>7, <2>1, <2>2 DEF Prepare
<1>8. ASSUME NEW next \in Nat, NEW vec \in Writers, NEW graph \in Writers,
             "run" \in {calls[c].vec, calls[c].graph},
             calls' = [calls EXCEPT ![c] = [calls[c] EXCEPT !.next = next, !.vec = vec,
                                                            !.graph = graph]],
             cache' = cache
      PROVE  [Contract!Next]_(Contract!cvars)
  <2> DEFINE call == [calls[c] EXCEPT !.next = next, !.vec = vec, !.graph = graph]
  <2>1. call \in CallType /\ call.pc = calls[c].pc /\ call.result = calls[c].result
        /\ call.kb = calls[c].kb /\ call.doc = calls[c].doc
        /\ call.content = calls[c].content
    BY <1>1 DEF CallType
  <2>2. calls[c].pc # "idle" /\ c \notin Whole
    BY <1>1, <1>8 DEF CallOK, IdleCall, Whole
  <2> HIDE DEF call
  <2> QED
    BY <1>8, <2>1, <2>2, InnerIsContract DEF call
<1>9. CASE VecWrite(c)
  <2> DEFINE next == calls[c].next + BatchSize
             vec == IF next > ChunkCount[calls[c].content] + 1 THEN "done" ELSE "run"
  <2>1. next \in Nat /\ vec \in Writers /\ calls[c].graph \in Writers
    BY <1>1 DEF CallType, Writers
  <2>2. calls' = [calls EXCEPT ![c] = [calls[c] EXCEPT !.next = next, !.vec = vec,
                                                        !.graph = calls[c].graph]]
    BY <1>1, <1>9 DEF VecWrite, CallType
  <2>3. calls[c].vec = "run" /\ cache' = cache
    BY <1>9 DEF VecWrite
  <2> HIDE DEF next, vec
  <2> QED
    BY <1>8, <2>1, <2>2, <2>3
<1>10. CASE VecFail(c)
  <2>1. calls' = [calls EXCEPT ![c] = [calls[c] EXCEPT !.next = calls[c].next,
                                         !.vec = "error", !.graph = calls[c].graph]]
    BY <1>1, <1>10 DEF VecFail, CallType
  <2>2. calls[c].next \in Nat /\ "error" \in Writers /\ calls[c].graph \in Writers
        /\ calls[c].vec = "run" /\ cache' = cache
    BY <1>1, <1>10 DEF VecFail, CallType, Writers
  <2> QED
    BY <1>8, <2>1, <2>2
<1>11. CASE GraphWrite(c) \/ GraphFail(c)
  <2>1. PICK graph \in {"done", "error"} : calls' = [calls EXCEPT ![c].graph = graph]
    BY <1>11 DEF GraphWrite, GraphFail
  <2>2. calls' = [calls EXCEPT ![c] = [calls[c] EXCEPT !.next = calls[c].next,
                                         !.vec = calls[c].vec, !.graph = graph]]
    BY <1>1, <2>1 DEF CallType
  <2>3. calls[c].next \in Nat /\ calls[c].vec \in Writers /\ graph \in Writers
        /\ calls[c].graph = "run" /\ cache' = cache
    BY <1>1, <1>11 DEF GraphWrite, GraphFail, CallType, Writers
  <2> QED
    BY <1>8, <2>2, <2>3
<1>12. CASE Stored(c)
  BY <1>1, <1>2, <1>12, EndIsContract DEF Stored, CallOK, Steps
<1>13. CASE StoreFails(c)
  BY <1>1, <1>13, EndIsContract DEF StoreFails, CallOK
<1>14. ASSUME Register(c) \/ RegisterFault(c)
       PROVE  [Contract!Next]_(Contract!cvars)
  <2>1. /\ calls[c].pc = "register"
        /\ cache' \in {cache, Registered(c)}
        /\ End(c, "ok") \/ End(c, "failed")
    BY <1>14 DEF Register, RegisterFault
  <2>2. c \in Whole
    BY <1>1, <2>1 DEF Whole, CallOK
  <2> QED
    BY <2>1, <2>2, EndIsContract
<1> QED
  BY <1>3, <1>4, <1>5, <1>6, <1>7, <1>9, <1>10, <1>11, <1>12, <1>13, <1>14
     DEF Step, Fault

LEMMA NextIsContract == CInv /\ [Next]_vars => [Contract!Next]_(Contract!cvars)
<1> SUFFICES ASSUME CInv, [Next]_vars
             PROVE  [Contract!Next]_(Contract!cvars)
  OBVIOUS
<1>1. TypeOK /\ \A r \in RunIds : RunOK(r) /\ runs[r] \in RunType
  BY DEF CInv, TypeOK
<1>2. ASSUME NEW c \in CallIds, NEW r \in RunIds, NEW k \in KBs, NEW d \in Docs,
             NEW x \in Contents, FirstDocument(c, r, k, d, x)
      PROVE  [Contract!Next]_(Contract!cvars)
  <2>1. PICK mode \in {"none", IF hasIndex THEN "index" ELSE "cache"}, force \in BOOLEAN :
          Ingest(c, r, [mode |-> mode, force |-> force, kb |-> k, boot |-> boot,
                        live |-> TRUE, seen |-> {}], d, x)
    BY <1>2 DEF FirstDocument
  <2> DEFINE run == [mode |-> mode, force |-> force, kb |-> k, boot |-> boot,
                     live |-> TRUE, seen |-> {}]
  <2>2. run \in RunType /\ run.kb = k
    BY <1>1 DEF RunType, Modes, TypeOK
  <2> HIDE DEF run
  <2> QED
    BY <2>1, <2>2, IngestIsContract DEF run
<1>3. ASSUME NEW c \in CallIds, NEW r \in RunIds, NEW d \in Docs, NEW x \in Contents,
             NextDocument(c, r, d, x)
      PROVE  [Contract!Next]_(Contract!cvars)
  BY <1>1, <1>3, IngestIsContract DEF NextDocument, RunOK
<1>4. CASE RestartApi
  BY <1>4, CutOffIsContract DEF RestartApi
<1>5. ASSUME NEW r \in RunIds, CliDies(r)
      PROVE  [Contract!Next]_(Contract!cvars)
  BY <1>5, CutOffIsContract DEF CliDies
<1>6. CASE UNCHANGED vars
  BY <1>6 DEF vars, What, Verdict, Whole, Contract!cvars
<1> QED
  BY <1>2, <1>3, <1>4, <1>5, <1>6, StepIsContract DEF Next

(***************************************************************************)
(* The pipeline implements the contract, for any knowledge bases, documents, *)
(* chunk counts, batch size, runs, calls, failures and crashes.               *)
(***************************************************************************)
THEOREM ImplementsContract == Spec => KeepsContract
<1>1. Init => Contract!Init
  BY ContractInit
<1>2. CInv /\ [Next]_vars => [Contract!Next]_(Contract!cvars)
  BY NextIsContract
<1> QED
  BY <1>1, <1>2, CInvInit, CInvStep, PTL DEF Spec, KeepsContract, Contract!Spec

LEMMA PromisesInit == Contract!Init => Contract!CInv
  BY DEF Contract!Init, Contract!CInv, Contract!TypeOK, Contract!RegisteredIsStored,
         Contract!AnswersAreTrue, Contract!Verdicts

\* The contract keeps its two promises at every step: a call that is opened has
\* not been stored, so no registered content refers to it, and a hash is only
\* added for a call that has been.
LEMMA PromisesStep == Contract!CInv /\ [Contract!Next]_(Contract!cvars) => Contract!CInv'
<1> SUFFICES ASSUME Contract!CInv, [Contract!Next]_(Contract!cvars)
             PROVE  Contract!CInv'
  OBVIOUS
<1> USE DEF Contract!CInv, Contract!TypeOK, Contract!Verdicts
<1>1. ASSUME NEW c \in CallIds, Contract!Open(c) PROVE Contract!CInv'
  <2>1. c \notin Whole
    BY <1>1 DEF Contract!Open, Contract!AnswersAreTrue
  <2>2. \A e \in Whole : What'[e] = What[e]
    BY <1>1, <2>1 DEF Contract!Open
  <2>3. Contract!RegisteredIsStored'
    BY <1>1, <2>2 DEF Contract!Open, Contract!RegisteredIsStored
  <2> QED
    BY <1>1, <2>1, <2>3 DEF Contract!Open, Contract!AnswersAreTrue
<1>2. ASSUME NEW c \in CallIds, Contract!Store(c) PROVE Contract!CInv'
  BY <1>2 DEF Contract!Store, Contract!RegisteredIsStored, Contract!AnswersAreTrue
<1>3. ASSUME NEW c \in CallIds, Contract!Refuse(c) PROVE Contract!CInv'
  BY <1>3 DEF Contract!Refuse, Contract!RegisteredIsStored, Contract!AnswersAreTrue
<1>4. ASSUME NEW c \in CallIds, Verdict[c] = "open", Contract!MayRegister(c),
             UNCHANGED <<What, Whole>>
      PROVE  Contract!RegisteredIsStored' /\ cache' \in [KBs -> SUBSET Contents]
  <2>1. CASE cache' = cache
    BY <1>4, <2>1 DEF Contract!RegisteredIsStored
  <2>2. CASE /\ c \in Whole
             /\ cache' = [cache EXCEPT ![What[c].kb] = @ \cup {What[c].content}]
    <3>1. What[c].kb \in KBs /\ What[c].content \in Contents
      BY <1>4 DEF Contract!Items
    <3>2. \A k \in KBs : \A x \in cache'[k] :
             x \in cache[k] \/ (k = What[c].kb /\ x = What[c].content)
      BY <2>2, <3>1
    <3> QED
      BY <1>4, <2>2, <3>1, <3>2 DEF Contract!RegisteredIsStored
  <2> QED
    BY <1>4, <2>1, <2>2 DEF Contract!MayRegister
<1>5. ASSUME NEW c \in CallIds, Contract!Fail(c) PROVE Contract!CInv'
  BY <1>4, <1>5 DEF Contract!Fail, Contract!AnswersAreTrue
<1>6. ASSUME NEW c \in CallIds, Contract!Accept(c) PROVE Contract!CInv'
  BY <1>4, <1>6 DEF Contract!Accept, Contract!AnswersAreTrue
<1>7. CASE Contract!Lose
  BY <1>7 DEF Contract!Lose, Contract!RegisteredIsStored, Contract!AnswersAreTrue
<1>8. CASE UNCHANGED (Contract!cvars)
  BY <1>8 DEF Contract!cvars, Contract!RegisteredIsStored, Contract!AnswersAreTrue
<1> QED
  BY <1>1, <1>2, <1>3, <1>5, <1>6, <1>7, <1>8 DEF Contract!Next

\* What the contract promises holds of the pipeline: a registered content was
\* stored and every answer is true, for any number of calls.
THEOREM PromisesKept ==
    Spec => [](Contract!RegisteredIsStored /\ Contract!AnswersAreTrue)
<1>1. Contract!CInv => Contract!RegisteredIsStored /\ Contract!AnswersAreTrue
  BY DEF Contract!CInv
<1> QED
  BY ImplementsContract, PromisesInit, PromisesStep, <1>1, PTL DEF KeepsContract, Contract!Spec

(***************************************************************************)
(* So a content in the Redis set of a knowledge base was whole in both       *)
(* stores for it: what the contract promises holds of the pipeline.           *)
(***************************************************************************)
THEOREM CacheIsTrue == Spec => []CacheMeansStored
<1>1. Contract!RegisteredIsStored => CacheMeansStored
  BY DEF CacheMeansStored
<1> QED
  BY <1>1, PromisesKept, PTL

-----------------------------------------------------------------------------
(* The duplicate checks *)

(***************************************************************************)
(* What the dedup pipeline's two tables and the runs say about each other: a  *)
(* hash is in the table exactly if a call of this start entered it, and it    *)
(* names a document not yet in the store only while a call is about to put it  *)
(* there.                                                                    *)
(***************************************************************************)
RunsOfBoots ==
    \A r \in RunIds : /\ runs[r].boot <= boot
                      /\ runs[r].live => runs[r].boot # 0
                      /\ runs[r].live /\ runs[r].mode # "none" => runs[r].boot = boot

CallsOfRuns ==
    \A c \in CallIds :
        /\ calls[c].pc # "idle" => runs[calls[c].run].boot # 0
        /\ calls[c].pc \in {"enroll", "index"} =>
              runs[calls[c].run].mode = "index" /\ runs[calls[c].run].live
        /\ calls[c].pc = "check" => runs[calls[c].run].mode = "cache"

HashesEntered ==
    \A x \in Contents : hashOf[x] # None => TakenIn(x)

EnteredHashes ==
    \A e \in CallIds : (calls[e].entered /\ runs[calls[e].run].boot = boot)
                       => hashOf[calls[e].content] # None

StoreCatchesUp ==
    \A x \in Contents : hashOf[x] # None =>
        \/ hashOf[x] \in known
        \/ \E e \in CallIds : /\ calls[e].pc = "index" /\ calls[e].content = x
                              /\ calls[e].doc = hashOf[x]

DInv == /\ CInv /\ RunsOfBoots /\ CallsOfRuns /\ HashesEntered /\ EnteredHashes
        /\ StoreCatchesUp /\ DuplicateHasWitness

LEMMA DInvInit == Init => DInv
<1> SUFFICES ASSUME Init PROVE DInv
  OBVIOUS
<1>1. CInv
  BY CInvInit
<1>2. /\ \A c \in CallIds : calls[c].pc = "idle" /\ ~ calls[c].entered /\ calls[c].result = "none"
      /\ \A r \in RunIds : ~ runs[r].live /\ runs[r].boot = 0
      /\ \A x \in Contents : hashOf[x] = None
      /\ boot = 1
  BY DEF Init, IdleCall, NoRun
<1> QED
  BY <1>1, <1>2 DEF DInv, RunsOfBoots, CallsOfRuns, HashesEntered, EnteredHashes,
                    StoreCatchesUp, DuplicateHasWitness

(***************************************************************************)
(* What never changes again: the item and run of a call that was made, that  *)
(* it entered its hash, that its document is whole; the process of a run.     *)
(***************************************************************************)
SameCall(e) ==
    /\ calls'[e].kb = calls[e].kb /\ calls'[e].doc = calls[e].doc
    /\ calls'[e].content = calls[e].content /\ calls'[e].run = calls[e].run

KeptCall(e) ==
    /\ SameCall(e)
    /\ calls[e].entered => calls'[e].entered
    /\ e \in Whole => e \in Whole'

\* A step of one call: the others stay as they are.
OneCall(c) ==
    /\ KeptCall(c)
    /\ \A e \in CallIds : e # c => calls'[e] = calls[e]

LEMMA StepIsOneCall ==
  ASSUME CInv, NEW c \in CallIds, Step(c) \/ Fault(c)
  PROVE  /\ OneCall(c)
         /\ UNCHANGED <<boot, hasIndex, runs>>
         /\ calls[c].pc # "idle" /\ calls'[c].pc # "idle"
         /\ (hashOf' = hashOf /\ known' = known
             /\ calls'[c].entered = calls[c].entered /\ calls[c].pc # "index")
            \/ Enroll(c) \/ IndexDoc(c)
         /\ calls'[c].pc \notin {"enroll", "check"}
         /\ calls'[c].pc = "index" => Enroll(c)
         /\ calls'[c].result = "duplicate" =>
               calls[c].result = "duplicate" \/ CheckCache(c)
<1>1. calls[c] \in CallType /\ CallOK(c) /\ calls \in [CallIds -> CallType]
  BY DEF CInv, TypeOK
<1> USE <1>1 DEF OneCall, KeptCall, SameCall, Whole, CallType
<1>13. ASSUME NEW pc, Goto(c, pc)
       PROVE  /\ OneCall(c) /\ calls'[c].pc = pc
              /\ calls'[c].entered = calls[c].entered
              /\ calls'[c].result = calls[c].result
  BY <1>13 DEF Goto
<1>14. ASSUME NEW result, End(c, result)
       PROVE  /\ OneCall(c) /\ calls'[c].pc = "done"
              /\ calls'[c].entered = calls[c].entered
              /\ calls'[c].result = result
  BY <1>14 DEF End
<1>2. CASE Enroll(c)
  BY <1>2 DEF Enroll, CallOK
<1>3. CASE IndexDoc(c)
  BY <1>3 DEF IndexDoc, Goto, CallOK
<1> HIDE DEF OneCall, KeptCall, SameCall
<1>4. CASE CheckCache(c)
  BY <1>4, <1>13, <1>14 DEF CheckCache
<1>5. CASE CacheFault(c)
  BY <1>5, <1>13, <1>14 DEF CacheFault, CallOK
<1>6. CASE Prepare(c)
  <2>1. CASE End(c, "refused") \/ End(c, "failed")
    BY <1>6, <1>14, <2>1 DEF Prepare
  <2>2. CASE calls' = [calls EXCEPT ![c] = [@ EXCEPT !.pc = "store", !.vec = "run",
                                                      !.graph = "run"]]
    BY <1>6, <2>2 DEF Prepare, CallOK, OneCall, KeptCall, SameCall
  <2> QED
    BY <1>6, <2>1, <2>2 DEF Prepare
<1> USE DEF OneCall, KeptCall, SameCall
<1>7. CASE VecWrite(c)
  <2> DEFINE next == calls[c].next + BatchSize
             vec == IF next > ChunkCount[calls[c].content] + 1 THEN "done" ELSE "run"
  <2>1. /\ calls' = [calls EXCEPT ![c] = [calls[c] EXCEPT !.next = next, !.vec = vec]]
        /\ calls[c].vec = "run" /\ UNCHANGED <<boot, hasIndex, hashOf, known, runs>>
    BY <1>7 DEF VecWrite
  <2>2. calls[c].pc \notin {"idle", "check", "enroll", "index"}
    BY <2>1 DEF CallOK, IdleCall
  <2> HIDE DEF next, vec
  <2> QED
    BY <2>1, <2>2
<1>8. CASE VecFail(c)
  <2>1. calls[c].pc \notin {"idle", "check", "enroll", "index"}
    BY <1>8 DEF VecFail, CallOK, IdleCall
  <2> QED
    BY <1>8, <2>1 DEF VecFail
<1>9. CASE GraphWrite(c) \/ GraphFail(c)
  <2>1. calls[c].pc \notin {"idle", "check", "enroll", "index"}
    BY <1>9 DEF GraphWrite, GraphFail, CallOK, IdleCall
  <2> QED
    BY <1>9, <2>1 DEF GraphWrite, GraphFail
<1> HIDE DEF OneCall, KeptCall, SameCall
<1>10. CASE Stored(c)
  BY <1>10, <1>13, <1>14 DEF Stored, CallOK
<1>11. CASE StoreFails(c)
  BY <1>11, <1>14 DEF StoreFails
<1>12. CASE Register(c) \/ RegisterFault(c)
  BY <1>12, <1>14 DEF Register, RegisterFault
<1> QED
  BY <1>2, <1>3, <1>4, <1>5, <1>6, <1>7, <1>8, <1>9, <1>10, <1>11, <1>12 DEF Step, Fault

\* A duplicate keeps its witness.
LEMMA WitnessKept ==
  ASSUME CInv, DuplicateHasWitness, NEW c \in CallIds,
         calls[c].pc # "idle", calls[c].result = "duplicate",
         \A e \in CallIds : calls[e].pc # "idle" => KeptCall(e),
         \A r \in RunIds : runs[r].boot # 0 =>
            runs'[r].boot = runs[r].boot /\ runs'[r].mode = runs[r].mode,
         CallsOfRuns
  PROVE  \E e \in CallIds \ {c} :
            /\ calls'[e].content = calls'[c].content
            /\ IF runs'[calls'[c].run].mode = "index"
               THEN /\ calls'[e].entered
                    /\ runs'[calls'[e].run].boot = runs'[calls'[c].run].boot
               ELSE e \in Whole' /\ calls'[e].kb = calls'[c].kb
<1>1. PICK e \in CallIds \ {c} :
            /\ calls[e].content = calls[c].content
            /\ IF runs[calls[c].run].mode = "index"
               THEN /\ calls[e].entered
                    /\ runs[calls[e].run].boot = runs[calls[c].run].boot
               ELSE e \in Whole /\ calls[e].kb = calls[c].kb
  BY DEF DuplicateHasWitness
<1>2. calls[e].pc # "idle"
  BY <1>1 DEF CInv, CallOK, IdleCall, Whole
<1>3. calls[e].run \in RunIds /\ calls[c].run \in RunIds
  BY <1>2 DEF CInv, CallOK
<1>4. KeptCall(e) /\ KeptCall(c)
  BY <1>2
<1> QED
  BY <1>1, <1>2, <1>3, <1>4 DEF KeptCall, SameCall, CallsOfRuns

\* One call steps inside the pipeline.
LEMMA DInvInside ==
  ASSUME DInv, CacheMeansStored, NEW c \in CallIds, Step(c) \/ Fault(c), CInv'
  PROVE  DInv'
<1>1. CInv
  BY DEF DInv
<1>2. /\ OneCall(c)
      /\ UNCHANGED <<boot, hasIndex, runs>>
      /\ calls[c].pc # "idle" /\ calls'[c].pc # "idle"
      /\ (hashOf' = hashOf /\ known' = known
          /\ calls'[c].entered = calls[c].entered /\ calls[c].pc # "index")
         \/ Enroll(c) \/ IndexDoc(c)
      /\ calls'[c].pc \notin {"enroll", "check"}
      /\ calls'[c].pc = "index" => Enroll(c)
      /\ calls'[c].result = "duplicate" =>
            calls[c].result = "duplicate" \/ CheckCache(c)
  BY <1>1, StepIsOneCall
<1>3. /\ \A e \in CallIds : calls[e].pc # "idle" => KeptCall(e)
      /\ \A e \in CallIds : SameCall(e)
  BY <1>2 DEF OneCall, KeptCall, SameCall, Whole
<1>4. /\ calls[c].content \in Contents /\ calls[c].doc \in Docs /\ calls[c].kb \in KBs
      /\ calls[c].run \in RunIds
  BY <1>1, <1>2 DEF CInv, CallOK
<1>5. calls[c].pc = "enroll" => runs[calls[c].run].boot = boot
  BY <1>2, <1>4 DEF DInv, RunsOfBoots, CallsOfRuns
<1>6. RunsOfBoots' /\ CallsOfRuns'
  <2>1. RunsOfBoots'
    BY <1>2 DEF DInv, RunsOfBoots
  <2>2. CallsOfRuns'
    BY <1>2, <1>3 DEF DInv, CallsOfRuns, OneCall, SameCall, Enroll
  <2> QED
    BY <2>1, <2>2
<1>7. HashesEntered' /\ EnteredHashes' /\ StoreCatchesUp'
  <2>1. CASE hashOf' = hashOf /\ known' = known
             /\ calls'[c].entered = calls[c].entered /\ calls[c].pc # "index"
    <3>1. HashesEntered'
      BY <1>2, <1>3, <2>1 DEF DInv, HashesEntered, TakenIn, OneCall, SameCall
    <3>2. EnteredHashes'
      BY <1>2, <1>3, <2>1 DEF DInv, EnteredHashes, OneCall, SameCall
    <3>3. StoreCatchesUp'
      BY <1>2, <1>3, <2>1 DEF DInv, StoreCatchesUp, OneCall, SameCall
    <3> QED
      BY <3>1, <3>2, <3>3
  <2>2. CASE Enroll(c)
    <3>1. /\ calls[c].pc = "enroll" /\ calls'[c].pc = "index" /\ calls'[c].entered
          /\ hashOf' = [hashOf EXCEPT ![calls[c].content] = calls[c].doc]
          /\ known' = known
      BY <1>1, <2>2 DEF Enroll, CInv, TypeOK, CallType
    <3>2. \A x \in Contents : hashOf'[x] = IF x = calls[c].content THEN calls[c].doc
                                           ELSE hashOf[x]
      BY <1>1, <3>1 DEF CInv, TypeOK
    <3>3. ASSUME NEW x \in Contents, x = calls[c].content
          PROVE  TakenIn(x)'
      BY <1>2, <1>3, <1>5, <3>1, <3>3 DEF TakenIn, SameCall
    <3>4. HashesEntered'
      <4>1. ASSUME NEW x \in Contents, x # calls[c].content, hashOf[x] # None
            PROVE  TakenIn(x)'
        BY <1>2, <1>3, <4>1 DEF DInv, HashesEntered, TakenIn, OneCall, KeptCall, SameCall
      <4> QED
        BY <3>2, <3>3, <4>1 DEF HashesEntered
    <3>5. EnteredHashes'
      <4>1. calls[c].doc # None
        BY <1>4
      <4>2. ASSUME NEW e \in CallIds, e # c, calls'[e].entered,
                   runs'[calls'[e].run].boot = boot'
            PROVE  hashOf'[calls'[e].content] # None
        <5>1. calls'[e] = calls[e] /\ hashOf[calls[e].content] # None
          BY <1>2, <4>2 DEF OneCall, DInv, EnteredHashes
        <5>2. calls[e].content \in Contents
          BY <1>1, <1>2, <4>2, <5>1 DEF CInv, CallOK, IdleCall
        <5> QED
          BY <3>2, <4>1, <5>1, <5>2
      <4> QED
        BY <1>3, <1>4, <3>2, <4>1, <4>2 DEF EnteredHashes, SameCall
    <3>6. StoreCatchesUp'
      <4>1. ASSUME NEW x \in Contents, hashOf'[x] # None, x # calls[c].content
            PROVE  \/ hashOf'[x] \in known'
                   \/ \E e \in CallIds : /\ calls'[e].pc = "index" /\ calls'[e].content = x
                                         /\ calls'[e].doc = hashOf'[x]
        BY <1>2, <3>1, <3>2, <4>1 DEF DInv, StoreCatchesUp, OneCall
      <4> QED
        BY <1>3, <3>1, <3>2, <4>1 DEF StoreCatchesUp, SameCall
    <3> QED
      BY <3>4, <3>5, <3>6
  <2>3. CASE IndexDoc(c)
    <3>1. /\ hashOf' = hashOf /\ known' = known \cup {calls[c].doc}
          /\ calls'[c].entered = calls[c].entered
      BY <1>1, <2>3 DEF IndexDoc, Goto, CInv, TypeOK, CallType
    <3>2. HashesEntered'
      BY <1>2, <1>3, <3>1 DEF DInv, HashesEntered, TakenIn, OneCall, SameCall
    <3>3. EnteredHashes'
      BY <1>2, <1>3, <3>1 DEF DInv, EnteredHashes, OneCall, SameCall
    <3>4. StoreCatchesUp'
      BY <1>2, <1>3, <3>1 DEF DInv, StoreCatchesUp, OneCall, SameCall
    <3> QED
      BY <3>2, <3>3, <3>4
  <2> QED
    BY <1>2, <2>1, <2>2, <2>3
<1>8. DuplicateHasWitness'
  <2> SUFFICES ASSUME NEW d \in CallIds, calls'[d].result = "duplicate"
               PROVE  \E e \in CallIds \ {d} :
                        /\ calls'[e].content = calls'[d].content
                        /\ IF runs'[calls'[d].run].mode = "index"
                           THEN /\ calls'[e].entered
                                /\ runs'[calls'[e].run].boot = runs'[calls'[d].run].boot
                           ELSE e \in Whole' /\ calls'[e].kb = calls'[d].kb
    BY DEF DuplicateHasWitness
  <2>1. CASE calls[d].result = "duplicate"
    <3>1. calls[d].pc # "idle"
      BY <1>1, <2>1 DEF CInv, CallOK, IdleCall
    <3> QED
      BY <1>1, <1>2, <1>3, <2>1, <3>1, WitnessKept DEF DInv
  <2>2. CASE calls[d].result # "duplicate"
    <3>1. d = c /\ CheckCache(c)
      BY <1>2, <2>2 DEF OneCall
    <3>2. calls[c].content \in cache[calls[c].kb] /\ calls[c].pc = "check"
      <4>1. CASE Goto(c, "prepare")
        BY <1>1, <2>2, <3>1, <4>1 DEF Goto, CInv, TypeOK, CallType
      <4> QED
        BY <3>1, <4>1 DEF CheckCache
    <3>3. PICK e \in Whole : What[e].kb = calls[c].kb /\ What[e].content = calls[c].content
      BY <1>4, <3>2 DEF CacheMeansStored, Contract!RegisteredIsStored
    <3>4. e \in CallIds /\ calls[e].kb = calls[c].kb /\ calls[e].content = calls[c].content
      BY <3>3 DEF What, Whole
    <3>5. e # c
      BY <1>1, <3>2, <3>3 DEF CInv, CallOK, Whole
    <3>6. runs[calls[c].run].mode = "cache"
      BY <3>2 DEF DInv, CallsOfRuns
    <3> QED
      BY <1>2, <1>3, <3>1, <3>3, <3>4, <3>5, <3>6 DEF OneCall, SameCall, Whole
  <2> QED
    BY <2>1, <2>2
<1> QED
  BY <1>6, <1>7, <1>8 DEF DInv

\* A call is made.
LEMMA DInvIngest ==
  ASSUME DInv, NEW c \in CallIds, NEW r \in RunIds, NEW run \in RunType,
         NEW d \in Docs, NEW x \in Contents, Ingest(c, r, run, d, x), CInv',
         run.kb \in KBs, run.boot # 0, run.boot <= boot, run.live,
         run.mode # "none" => run.boot = boot,
         runs[r].boot # 0 => runs[r] = run
  PROVE  DInv'
<1>1. CInv /\ calls \in [CallIds -> CallType] /\ runs \in [RunIds -> RunType]
  BY DEF DInv, CInv, TypeOK
<1>2. PICK after \in AfterGate(run, x) :
         LET others == Beside(run.kb, d)
             call == [IdleCall EXCEPT !.pc = after.pc, !.result = after.result,
                                      !.run = r, !.kb = run.kb, !.doc = d,
                                      !.content = x, !.alone = (others = {}),
                                      !.entered = (after.pc = "index")]
         IN  /\ calls' = [e \in CallIds |->
                             IF e = c THEN call
                             ELSE IF e \in others THEN [calls[e] EXCEPT !.alone = FALSE]
                             ELSE calls[e]]
             /\ hashOf' = IF after.pc = "index" THEN [hashOf EXCEPT ![x] = d] ELSE hashOf
  BY DEF Ingest
<1>3. /\ after.pc \in {"check", "enroll", "index", "prepare", "done"}
      /\ after.result \in {"none", "refused", "duplicate"}
      /\ after.pc \in {"enroll", "index"} => run.mode = "index"
      /\ after.pc = "check" => run.mode = "cache"
      /\ after.result = "duplicate" => run.mode = "index" /\ Indexed(x)
  BY <1>1 DEF AfterGate, RunType, Modes
<1>4. /\ calls'[c].pc = after.pc /\ calls'[c].result = after.result
      /\ calls'[c].run = r /\ calls'[c].kb = run.kb /\ calls'[c].doc = d
      /\ calls'[c].content = x /\ calls'[c].entered = (after.pc = "index")
  <2> DEFINE entering == after.pc = "index"
             single == Beside(run.kb, d) = {}
  <2>1. calls'[c] = [IdleCall EXCEPT !.pc = after.pc, !.result = after.result,
                                     !.run = r, !.kb = run.kb, !.doc = d,
                                     !.content = x, !.alone = single,
                                     !.entered = entering]
    BY <1>2
  <2>2. calls'[c].entered = entering
    <3> HIDE DEF entering, single
    <3> QED
      BY <2>1 DEF IdleCall
  <2>3. calls'[c].pc = after.pc /\ calls'[c].result = after.result
        /\ calls'[c].run = r /\ calls'[c].kb = run.kb /\ calls'[c].doc = d
        /\ calls'[c].content = x
    <3> HIDE DEF entering, single
    <3> QED
      BY <2>1 DEF IdleCall
  <2> QED
    BY <2>2, <2>3
<1>5. /\ calls[c].pc = "idle" /\ ~ calls[c].entered /\ c \notin Whole
      /\ calls[c].result = "none"
  <2>1. calls[c] = IdleCall
    BY <1>1 DEF Ingest, CInv, CallOK
  <2> QED
    BY <2>1 DEF IdleCall, Whole
<1>6. ASSUME NEW e \in CallIds, e # c
      PROVE  /\ KeptCall(e) /\ calls'[e].pc = calls[e].pc
             /\ calls'[e].result = calls[e].result
             /\ calls'[e].entered = calls[e].entered
  <2>1. calls'[e] = calls[e] \/ calls'[e] = [calls[e] EXCEPT !.alone = FALSE]
    BY <1>2, <1>6
  <2> QED
    BY <1>1, <2>1 DEF CallType, KeptCall, SameCall, Whole
<1>7. /\ boot' = boot /\ known' = known
      /\ \A q \in RunIds : q # r => runs'[q] = runs[q]
      /\ runs'[r].mode = run.mode /\ runs'[r].boot = run.boot
      /\ runs'[r].live = run.live
  <2>1. CASE run.mode = "none"
    BY <1>1, <2>1 DEF Ingest
  <2>2. CASE run.mode # "none"
    <3>1. runs'[r] = [run EXCEPT !.seen = run.seen \cup {x}]
      BY <1>1, <2>2 DEF Ingest
    <3> QED
      BY <1>1, <3>1 DEF Ingest, RunType
  <2> QED
    BY <2>1, <2>2
<1>8. \A q \in RunIds : runs[q].boot # 0 =>
          runs'[q].boot = runs[q].boot /\ runs'[q].mode = runs[q].mode
                                       /\ runs'[q].live = runs[q].live
  BY <1>7
<1>9. /\ \A e \in CallIds : calls[e].pc # "idle" => calls[e].run \in RunIds
                                                    /\ runs[calls[e].run].boot # 0
      /\ \A e \in CallIds : calls[e].entered => calls[e].pc # "idle"
      /\ \A e \in CallIds : calls[e].pc # "idle" => calls[e].content \in Contents
  BY <1>1 DEF DInv, CInv, CallOK, IdleCall, CallsOfRuns
<1>10. RunsOfBoots'
  BY <1>7 DEF DInv, RunsOfBoots
<1>11. CallsOfRuns'
  <2> DEFINE OK(e, pc, q, rs) == /\ pc # "idle" => rs[q].boot # 0
                                 /\ pc \in {"enroll", "index"} =>
                                       rs[q].mode = "index" /\ rs[q].live
                                 /\ pc = "check" => rs[q].mode = "cache"
  <2>1. OK(c, calls'[c].pc, calls'[c].run, runs')
    BY <1>3, <1>4, <1>7
  <2>2. ASSUME NEW e \in CallIds, e # c
        PROVE  OK(e, calls'[e].pc, calls'[e].run, runs')
    <3>1. OK(e, calls[e].pc, calls[e].run, runs)
      BY DEF DInv, CallsOfRuns
    <3>2. calls'[e].pc = calls[e].pc /\ calls'[e].run = calls[e].run
      BY <1>6, <2>2 DEF KeptCall, SameCall
    <3> QED
      BY <1>8, <1>9, <3>1, <3>2
  <2> QED
    BY <2>1, <2>2 DEF CallsOfRuns
<1>12. after.pc = "index" => run.boot = boot /\ d # None
  BY <1>3
<1>13. \A y \in Contents : hashOf'[y] = IF after.pc = "index" /\ y = x THEN d ELSE hashOf[y]
  BY <1>1, <1>2 DEF CInv, TypeOK
<1>14. HashesEntered'
  <2>1. ASSUME NEW y \in Contents, hashOf[y] # None
        PROVE  TakenIn(y)'
    BY <1>5, <1>6, <1>7, <1>8, <1>9, <2>1
       DEF DInv, HashesEntered, TakenIn, KeptCall, SameCall
  <2>2. ASSUME NEW y \in Contents, y = x, after.pc = "index"
        PROVE  TakenIn(y)'
    BY <1>4, <1>7, <1>12, <2>2 DEF TakenIn
  <2> QED
    BY <1>13, <2>1, <2>2 DEF HashesEntered
<1>15. EnteredHashes'
  <2>1. ASSUME NEW e \in CallIds, e # c, calls'[e].entered,
               runs'[calls'[e].run].boot = boot'
        PROVE  hashOf'[calls'[e].content] # None
    <3>1. calls[e].entered /\ calls'[e].content = calls[e].content
          /\ calls'[e].run = calls[e].run
      BY <1>6, <2>1 DEF KeptCall, SameCall
    <3>2. hashOf[calls[e].content] # None
      BY <1>7, <1>8, <1>9, <2>1, <3>1 DEF DInv, EnteredHashes
    <3> QED
      BY <1>9, <1>12, <1>13, <3>1, <3>2
  <2>2. calls'[c].entered => hashOf'[calls'[c].content] # None
    BY <1>4, <1>12, <1>13
  <2> QED
    BY <2>1, <2>2 DEF EnteredHashes
<1>16. StoreCatchesUp'
  <2>1. ASSUME NEW y \in Contents, hashOf'[y] # None
        PROVE  \/ hashOf'[y] \in known'
               \/ \E e \in CallIds : /\ calls'[e].pc = "index" /\ calls'[e].content = y
                                     /\ calls'[e].doc = hashOf'[y]
    <3>1. CASE after.pc = "index" /\ y = x
      BY <1>4, <1>13, <3>1
    <3>2. CASE hashOf'[y] = hashOf[y]
      BY <1>5, <1>6, <1>7, <2>1, <3>2 DEF DInv, StoreCatchesUp, KeptCall, SameCall
    <3> QED
      BY <1>13, <3>1, <3>2
  <2> QED
    BY <2>1 DEF StoreCatchesUp
<1>17. DuplicateHasWitness'
  <2> SUFFICES ASSUME NEW f \in CallIds, calls'[f].result = "duplicate"
               PROVE  \E e \in CallIds \ {f} :
                        /\ calls'[e].content = calls'[f].content
                        /\ IF runs'[calls'[f].run].mode = "index"
                           THEN /\ calls'[e].entered
                                /\ runs'[calls'[e].run].boot = runs'[calls'[f].run].boot
                           ELSE e \in Whole' /\ calls'[e].kb = calls'[f].kb
    BY DEF DuplicateHasWitness
  <2>1. CASE f # c
    <3>1. calls[f].result = "duplicate" /\ calls[f].pc # "idle"
      BY <1>1, <1>6, <2>1 DEF CInv, CallOK, IdleCall
    <3>2. \A e \in CallIds : calls[e].pc # "idle" => KeptCall(e)
      BY <1>5, <1>6
    <3> QED
      BY <1>1, <1>8, <3>1, <3>2, WitnessKept DEF DInv
  <2>2. CASE f = c
    <3>1. Indexed(x) /\ run.mode = "index" /\ after.pc # "index"
      BY <1>3, <1>4, <2>2 DEF AfterGate
    <3>2. PICK e \in CallIds : /\ calls[e].entered /\ calls[e].content = x
                               /\ runs[calls[e].run].boot = boot
      BY <3>1 DEF Indexed, DInv, HashesEntered, TakenIn
    <3>3. e # c
      BY <1>5, <3>2
    <3> QED
      BY <1>4, <1>6, <1>7, <1>8, <1>9, <2>2, <3>1, <3>2, <3>3 DEF KeptCall, SameCall
  <2> QED
    BY <2>1, <2>2
<1> QED
  BY <1>10, <1>11, <1>14, <1>15, <1>16, <1>17 DEF DInv

LEMMA DInvCutOff ==
  ASSUME DInv, NEW dead \in SUBSET RunIds, CutOff(dead), CInv',
         boot' >= boot, boot' \in Nat,
         \A r \in RunIds : runs[r].live /\ runs[r].mode # "none" /\ r \notin dead
                           => boot' = boot,
         \/ /\ hashOf' = [x \in Contents |-> None]
            /\ boot' = boot + 1
            /\ \A r \in RunIds : runs[r].live /\ runs[r].mode = "index" => r \in dead
         \/ /\ boot' = boot /\ hashOf' = hashOf /\ known' = known
            /\ \A r \in dead : runs[r].mode = "none"
  PROVE  DInv'
<1>1. CInv /\ calls \in [CallIds -> CallType] /\ runs \in [RunIds -> RunType]
      /\ boot \in Nat
  BY DEF DInv, CInv, TypeOK
<1>2. ASSUME NEW r \in RunIds
      PROVE  /\ runs'[r].boot = runs[r].boot /\ runs'[r].mode = runs[r].mode
             /\ runs'[r].live => runs[r].live /\ r \notin dead
             /\ r \notin dead => runs'[r].live = runs[r].live
  <2>1. runs[r] \in RunType
    BY <1>1
  <2>2. CASE r \in dead
    <3>1. runs'[r] = [runs[r] EXCEPT !.live = FALSE]
      BY <2>2 DEF CutOff
    <3> QED
      BY <2>1, <2>2, <3>1 DEF RunType
  <2>3. CASE r \notin dead
    <3>1. runs'[r] = runs[r]
      BY <2>3 DEF CutOff
    <3> QED
      BY <2>3, <3>1
  <2> QED
    BY <2>2, <2>3
<1>3. ASSUME NEW c \in CallIds
      PROVE  /\ KeptCall(c) /\ calls'[c].entered = calls[c].entered
             /\ calls'[c].result = "duplicate" => calls[c].result = "duplicate"
             /\ calls[c].run \notin dead => calls'[c] = calls[c]
             /\ calls[c].run \in dead => calls'[c].pc = "done"
  <2>1. calls[c] \in CallType
    BY <1>1
  <2>2. CASE calls[c].run \notin dead
    BY <2>2 DEF CutOff, KeptCall, SameCall, Whole
  <2>3. CASE calls[c].run \in dead
    BY <2>1, <2>3 DEF CutOff, KeptCall, SameCall, Whole, CallType
  <2> QED
    BY <2>2, <2>3
<1>4. \A c \in CallIds : /\ calls[c].pc # "idle" => calls[c].run \in RunIds
                         /\ calls[c].entered => calls[c].pc # "idle"
                         /\ calls[c].result = "duplicate" => calls[c].pc # "idle"
                         /\ calls[c].pc = "idle" => calls[c].run \notin dead
  BY <1>1 DEF CInv, CallOK, IdleCall, RunIds
<1>5. RunsOfBoots'
  <2>1. ASSUME NEW r \in RunIds
        PROVE  /\ runs'[r].boot <= boot'
               /\ runs'[r].live => runs'[r].boot # 0
               /\ runs'[r].live /\ runs'[r].mode # "none" => runs'[r].boot = boot'
    <3>1. runs[r].boot \in Nat /\ runs[r].boot <= boot
      BY <1>1 DEF RunType, DInv, RunsOfBoots
    <3> QED
      BY <1>1, <1>2, <3>1 DEF DInv, RunsOfBoots
  <2> QED
    BY <2>1 DEF RunsOfBoots
<1>6. CallsOfRuns'
  <2>1. ASSUME NEW c \in CallIds
        PROVE  /\ calls'[c].pc # "idle" => runs'[calls'[c].run].boot # 0
               /\ calls'[c].pc \in {"enroll", "index"} =>
                     runs'[calls'[c].run].mode = "index" /\ runs'[calls'[c].run].live
               /\ calls'[c].pc = "check" => runs'[calls'[c].run].mode = "cache"
    <3>1. calls'[c].run = calls[c].run
      BY <1>3 DEF KeptCall, SameCall
    <3>2. CASE calls[c].run \in dead
      BY <1>2, <1>3, <1>4, <3>1, <3>2 DEF DInv, CallsOfRuns
    <3>3. CASE calls[c].run \notin dead
      BY <1>2, <1>3, <1>4, <3>1, <3>3 DEF DInv, CallsOfRuns
    <3> QED
      BY <3>2, <3>3
  <2> QED
    BY <2>1 DEF CallsOfRuns
<1>7. DuplicateHasWitness'
  <2>1. ASSUME NEW c \in CallIds, calls'[c].result = "duplicate"
        PROVE  \E e \in CallIds \ {c} :
                  /\ calls'[e].content = calls'[c].content
                  /\ IF runs'[calls'[c].run].mode = "index"
                     THEN /\ calls'[e].entered
                          /\ runs'[calls'[e].run].boot = runs'[calls'[c].run].boot
                     ELSE e \in Whole' /\ calls'[e].kb = calls'[c].kb
    BY <1>1, <1>2, <1>3, <1>4, <2>1, WitnessKept DEF DInv
  <2> QED
    BY <2>1 DEF DuplicateHasWitness
<1>8. CASE /\ hashOf' = [x \in Contents |-> None]
           /\ boot' = boot + 1
  <2>1. HashesEntered' /\ StoreCatchesUp'
    BY <1>8 DEF HashesEntered, StoreCatchesUp
  <2>2. ASSUME NEW e \in CallIds, calls'[e].entered
        PROVE  runs'[calls'[e].run].boot # boot'
    <3>1. calls[e].run \in RunIds /\ calls'[e].run = calls[e].run
      BY <1>3, <1>4, <2>2 DEF KeptCall, SameCall
    <3>2. runs[calls[e].run].boot \in Nat /\ runs[calls[e].run].boot <= boot
      BY <1>1, <3>1 DEF RunType, DInv, RunsOfBoots
    <3> QED
      BY <1>1, <1>2, <1>8, <3>1, <3>2
  <2>3. EnteredHashes'
    BY <2>2 DEF EnteredHashes
  <2> QED
    BY <1>5, <1>6, <1>7, <2>1, <2>3 DEF DInv
<1>9. CASE /\ boot' = boot /\ hashOf' = hashOf /\ known' = known
           /\ \A r \in dead : runs[r].mode = "none"
  <2>1. HashesEntered'
    BY <1>2, <1>3, <1>4, <1>9 DEF DInv, HashesEntered, TakenIn, KeptCall, SameCall
  <2>2. EnteredHashes'
    BY <1>2, <1>3, <1>4, <1>9 DEF DInv, EnteredHashes, KeptCall, SameCall
  <2>3. ASSUME NEW e \in CallIds, calls[e].pc = "index"
        PROVE  calls'[e] = calls[e]
    BY <1>3, <1>9, <2>3 DEF DInv, CallsOfRuns
  <2>4. StoreCatchesUp'
    BY <1>9, <2>3 DEF DInv, StoreCatchesUp
  <2> QED
    BY <1>5, <1>6, <1>7, <2>1, <2>2, <2>4 DEF DInv
<1> QED
  BY <1>8, <1>9

LEMMA DInvStep == DInv /\ CacheMeansStored /\ [Next]_vars => DInv'
<1> SUFFICES ASSUME DInv, CacheMeansStored, [Next]_vars
             PROVE  DInv'
  OBVIOUS
<1>1. /\ TypeOK /\ CInv /\ CInv' /\ RunsOfBoots /\ boot \in Nat \ {0}
      /\ \A r \in RunIds : RunOK(r) /\ runs[r] \in RunType
  <2>1. CInv /\ CInv'
    BY CInvStep DEF DInv
  <2> QED
    BY <2>1 DEF DInv, CInv, TypeOK
<1>2. ASSUME NEW c \in CallIds, NEW r \in RunIds, NEW k \in KBs, NEW d \in Docs,
             NEW x \in Contents, FirstDocument(c, r, k, d, x)
      PROVE  DInv'
  <2>1. PICK mode \in {"none", IF hasIndex THEN "index" ELSE "cache"}, force \in BOOLEAN :
          Ingest(c, r, [mode |-> mode, force |-> force, kb |-> k, boot |-> boot,
                        live |-> TRUE, seen |-> {}], d, x)
    BY <1>2 DEF FirstDocument
  <2> DEFINE run == [mode |-> mode, force |-> force, kb |-> k, boot |-> boot,
                     live |-> TRUE, seen |-> {}]
  <2>2. run \in RunType
    BY <1>1 DEF RunType, Modes, TypeOK
  <2>3. run.kb = k /\ run.boot = boot /\ run.live
    OBVIOUS
  <2>4. runs[r].boot = 0
    BY <1>2 DEF FirstDocument, NoRun
  <2> HIDE DEF run
  <2>5. Ingest(c, r, run, d, x)
    BY <2>1 DEF run
  <2> QED
    BY <1>1, <2>2, <2>3, <2>4, <2>5, DInvIngest
<1>3. ASSUME NEW c \in CallIds, NEW r \in RunIds, NEW d \in Docs, NEW x \in Contents,
             NextDocument(c, r, d, x)
      PROVE  DInv'
  <2>1. runs[r].live /\ Ingest(c, r, runs[r], d, x)
    BY <1>3 DEF NextDocument
  <2> QED
    BY <1>1, <2>1, DInvIngest DEF RunOK, RunsOfBoots
<1>4. ASSUME NEW c \in CallIds, Step(c) \/ Fault(c)
      PROVE  DInv'
  BY <1>1, <1>4, DInvInside
<1>5. CASE RestartApi
  BY <1>1, <1>5, DInvCutOff DEF RestartApi
<1>6. ASSUME NEW r \in RunIds, CliDies(r) PROVE DInv'
  BY <1>1, <1>6, DInvCutOff DEF CliDies
<1>7. CASE UNCHANGED vars
  BY <1>1, <1>7 DEF vars, DInv, RunsOfBoots, CallsOfRuns, HashesEntered, EnteredHashes,
               StoreCatchesUp, DuplicateHasWitness, TakenIn, Whole
<1> QED
  BY <1>2, <1>3, <1>4, <1>5, <1>6, <1>7 DEF Next

(***************************************************************************)
(* A duplicate always has its witness, for any number of calls, runs and     *)
(* restarts.                                                                  *)
(***************************************************************************)
THEOREM DuplicatesHaveWitnesses == Spec => []DuplicateHasWitness
<1>1. DInv => DuplicateHasWitness
  BY DEF DInv
<1> QED
  BY DInvInit, DInvStep, CacheIsTrue, <1>1, PTL DEF Spec

(***************************************************************************)
(* A second copy slips past the dedup pipeline only beside a call of the     *)
(* same content that is on its way into it.                                   *)
(***************************************************************************)
THEOREM SecondCopiesSeen == Spec => SecondCopyIsSeen
<1> DEFINE Seen == \A c \in CallIds :
          (calls[c].pc = "idle" /\ calls'[c].pc \in {"enroll", "index"})
          => (TakenIn(calls'[c].content) => Entering(calls'[c].content))
<1>1. ASSUME DInv, DInv', [Next]_vars
      PROVE  Seen
  <2>0. DInv /\ DInv' /\ [Next]_vars
    BY <1>1
  <2> SUFFICES ASSUME NEW c \in CallIds, calls[c].pc = "idle",
                      calls'[c].pc \in {"enroll", "index"},
                      TakenIn(calls'[c].content)
               PROVE  Entering(calls'[c].content)
    OBVIOUS
  <2> DEFINE x == calls'[c].content
  <2>1. x \in Contents
    BY <2>0 DEF DInv, CInv, CallOK
  <2>2. hashOf[x] # None
    BY <2>0 DEF TakenIn, DInv, EnteredHashes
  <2>3. ~ Indexed(x)
    <3>1. ASSUME NEW r \in RunIds, NEW run, NEW d \in Docs, NEW y \in Contents,
                 NEW f \in CallIds, Ingest(f, r, run, d, y)
          PROVE  ~ Indexed(x)
      <4>1. PICK after \in AfterGate(run, y) :
              LET others == Beside(run.kb, d)
                  call == [IdleCall EXCEPT !.pc = after.pc, !.result = after.result,
                                           !.run = r, !.kb = run.kb, !.doc = d,
                                           !.content = y, !.alone = (others = {}),
                                           !.entered = (after.pc = "index")]
              IN  calls' = [e \in CallIds |->
                                  IF e = f THEN call
                                  ELSE IF e \in others THEN [calls[e] EXCEPT !.alone = FALSE]
                                  ELSE calls[e]]
        BY <3>1 DEF Ingest
      <4>2. calls[c] \in CallType
        BY <2>0 DEF DInv, CInv, TypeOK
      <4>3. f = c
        <5>1. CASE f # c
          <6>1. calls'[c] = calls[c] \/ calls'[c] = [calls[c] EXCEPT !.alone = FALSE]
            BY <4>1, <5>1
          <6> QED
            BY <4>2, <6>1 DEF CallType
        <5> QED
          BY <5>1
      <4>4. calls'[c].pc = after.pc /\ x = y
        BY <4>1, <4>3 DEF IdleCall
      <4> QED
        BY <4>4 DEF AfterGate
    <3>2. ASSUME NEW f \in CallIds, Step(f) \/ Fault(f)
          PROVE  FALSE
      BY <2>0, <3>2, StepIsOneCall DEF DInv, OneCall
    <3>3. ASSUME NEW dead \in SUBSET RunIds, CutOff(dead)
          PROVE  FALSE
      <4>1. calls[c].run \notin dead
        BY <2>0 DEF DInv, CInv, CallOK, IdleCall, RunIds
      <4> QED
        BY <3>3, <4>1 DEF CutOff
    <3>4. ASSUME RestartApi
          PROVE  FALSE
      BY <3>3, <3>4 DEF RestartApi
    <3>5. ASSUME NEW r \in RunIds, CliDies(r)
          PROVE  FALSE
      BY <3>3, <3>5 DEF CliDies
    <3>6. CASE UNCHANGED vars
      BY <3>6 DEF vars
    <3>7. ASSUME NEW f \in CallIds, NEW r \in RunIds, NEW k \in KBs, NEW d \in Docs,
                 NEW y \in Contents, FirstDocument(f, r, k, d, y)
          PROVE  ~ Indexed(x)
      BY <3>1, <3>7 DEF FirstDocument
    <3>8. ASSUME NEW f \in CallIds, NEW r \in RunIds, NEW d \in Docs, NEW y \in Contents,
                 NextDocument(f, r, d, y)
          PROVE  ~ Indexed(x)
      BY <3>1, <3>8 DEF NextDocument
    <3> HIDE DEF x
    <3> QED
      BY <2>0, <3>2, <3>4, <3>5, <3>6, <3>7, <3>8 DEF Next
  <2> HIDE DEF x
  <2>4. PICK e \in CallIds : calls[e].pc = "index" /\ calls[e].content = x
    BY <2>0, <2>1, <2>2, <2>3 DEF Indexed, DInv, StoreCatchesUp
  <2>5. Entering(x)
    BY <2>4 DEF Entering
  <2> QED
    BY <2>5 DEF x
<1>2. DInv /\ DInv' /\ [Next]_vars => [Seen]_vars
  BY <1>1
<1> QED
  BY <1>2, DInvInit, DInvStep, CacheIsTrue, PTL DEF Spec, SecondCopyIsSeen

-----------------------------------------------------------------------------
(* The points of a document *)

(***************************************************************************)
(* Calls are made in order; a call made while no other of its document was at *)
(* work finds the earlier ones at rest for good; and the last writer of a    *)
(* document whose calls never overlapped has left its content in every place *)
(* it has sent.                                                              *)
(***************************************************************************)
InOrder == \A c, e \in CallIds : e < c /\ calls[c].pc # "idle" => calls[e].pc # "idle"

SameDoc(c, e) == calls[e].kb = calls[c].kb /\ calls[e].doc = calls[c].doc

Apart == \A c, e \in CallIds :
            (e < c /\ calls[c].pc # "idle" /\ calls[c].alone /\ SameDoc(c, e)) => ~ Busy(e)

Last(c) == \A e \in CallIds :
              SameDoc(c, e) => calls[e].alone /\ (calls[e].vec # "off" => e <= c)

Sent(c) ==
    /\ calls[c].vec = "off" => calls[c].next = 1
    /\ calls[c].vec = "done" => calls[c].next > ChunkCount[calls[c].content] + 1

Written(c) ==
    (calls[c].vec \in {"run", "done"} /\ Last(c)) =>
        \A n \in 1 .. (ChunkCount[calls[c].content] + 1) :
            n < calls[c].next =>
               points[calls[c].kb][calls[c].doc][Place(calls[c].content, n)] = calls[c].content

WInv == CInv /\ InOrder /\ Apart /\ \A c \in CallIds : Sent(c) /\ Written(c)

LEMMA WInvInit == Init => WInv
<1> SUFFICES ASSUME Init PROVE WInv
  OBVIOUS
<1>1. CInv
  BY CInvInit
<1>2. \A c \in CallIds : calls[c] = IdleCall
  BY DEF Init
<1>3. IdleCall.pc = "idle" /\ IdleCall.vec = "off" /\ IdleCall.next = 1
  BY DEF IdleCall
<1> QED
  BY <1>1, <1>2, <1>3 DEF WInv, InOrder, Apart, Sent, Written

\* What a step may do to a call that was made, and how a call is made.
Goes(e) ==
    /\ SameCall(e) /\ calls'[e].pc # "idle"
    /\ calls'[e].alone => calls[e].alone
    /\ calls[e].vec # "off" => calls'[e].vec # "off"
    /\ Busy(e)' => Busy(e)

Made(c) ==
    /\ calls'[c].vec = "off" /\ calls'[c].next = 1
    /\ \A e \in CallIds : e < c => calls[e].pc # "idle"
    /\ calls'[c].alone => \A e \in CallIds :
          calls[e].kb = calls'[c].kb /\ calls[e].doc = calls'[c].doc => ~ Busy(e)

\* The last writer afterwards was the last one before.
LEMMA LastBefore ==
  ASSUME CInv, \A e \in CallIds : calls[e].pc # "idle" => Goes(e),
         NEW c \in CallIds, calls[c].pc # "idle", Last(c)'
  PROVE  Last(c)
<1> SUFFICES ASSUME NEW e \in CallIds, SameDoc(c, e)
             PROVE  calls[e].alone /\ (calls[e].vec # "off" => e <= c)
  BY DEF Last
<1>1. calls[e].pc # "idle"
  BY NoneAssumption DEF SameDoc, CInv, CallOK, IdleCall
<1>2. Goes(e) /\ Goes(c)
  BY <1>1
<1>3. SameDoc(c, e)'
  BY <1>2 DEF Goes, SameCall, SameDoc
<1> QED
  BY <1>2, <1>3 DEF Last, Goes

LEMMA CallsGoOn ==
  ASSUME WInv, CInv',
         \A e \in CallIds : calls[e].pc # "idle" => Goes(e) /\ Sent(e)' /\ Written(e)',
         \A e \in CallIds : calls[e].pc = "idle" => calls'[e] = calls[e] \/ Made(e)
  PROVE  WInv'
<1>1. ASSUME NEW c \in CallIds, NEW e \in CallIds, e < c, calls'[c].pc # "idle"
      PROVE  calls[e].pc # "idle"
  BY <1>1 DEF WInv, InOrder, Made
<1>2. InOrder'
  BY <1>1 DEF InOrder, Goes
<1>3. ASSUME NEW c \in CallIds, NEW e \in CallIds, e < c, calls'[c].pc # "idle",
             calls'[c].alone, SameDoc(c, e)'
      PROVE  ~ Busy(e)'
  <2>1. Goes(e)
    BY <1>1, <1>3
  <2>2. CASE calls[c].pc = "idle"
    <3>1. Made(c)
      BY <1>3, <2>2
    <3> QED
      BY <1>3, <2>1, <3>1 DEF Made, Goes, SameCall, SameDoc
  <2>3. CASE calls[c].pc # "idle"
    <3>1. Goes(c)
      BY <2>3
    <3>2. SameDoc(c, e) /\ calls[c].alone
      BY <1>3, <2>1, <3>1 DEF Goes, SameCall, SameDoc
    <3> QED
      BY <1>3, <2>1, <2>3, <3>2 DEF WInv, Apart, Goes
  <2> QED
    BY <2>2, <2>3
<1>4. Apart'
  BY <1>3 DEF Apart
<1>5. ASSUME NEW e \in CallIds PROVE Sent(e)' /\ Written(e)'
  <2>1. CASE calls[e].pc = "idle"
    <3>1. calls[e].vec = "off" /\ calls[e].next = 1
      BY <2>1 DEF WInv, CInv, CallOK, IdleCall
    <3>2. calls'[e].vec = "off" /\ calls'[e].next = 1
      BY <2>1, <3>1 DEF Made
    <3> QED
      BY <3>2 DEF Sent, Written
  <2> QED
    BY <2>1
<1> QED
  BY <1>2, <1>4, <1>5 DEF WInv

\* A call that leaves its writer and the points of its document alone keeps them.
LEMMA WrittenKept ==
  ASSUME WInv, \A e \in CallIds : calls[e].pc # "idle" => Goes(e),
         NEW c \in CallIds, calls[c].pc # "idle",
         calls'[c].next = calls[c].next,
         calls'[c].vec = calls[c].vec \/ calls'[c].vec \notin {"off", "run", "done"},
         Last(c) => points'[calls[c].kb][calls[c].doc] = points[calls[c].kb][calls[c].doc]
  PROVE  Sent(c)' /\ Written(c)'
<1>1. Goes(c) /\ Sent(c) /\ Written(c) /\ (Last(c)' => Last(c))
  BY LastBefore DEF WInv
<1>2. Sent(c)'
  BY <1>1 DEF Sent, Goes, SameCall
<1>3. ASSUME calls'[c].vec \in {"run", "done"}, Last(c)'
      PROVE  \A n \in 1 .. (ChunkCount[calls[c].content] + 1) :
                n < calls[c].next =>
                   points'[calls[c].kb][calls[c].doc][Place(calls[c].content, n)]
                      = calls[c].content
  BY <1>1, <1>3 DEF Written
<1> QED
  BY <1>1, <1>2, <1>3 DEF Written, Goes, SameCall

\* A step of one call, seen from its writer.
LEMMA StepGoes ==
  ASSUME CInv, NEW c \in CallIds, Step(c) \/ Fault(c)
  PROVE  /\ \A e \in CallIds : calls[e].pc # "idle" => Goes(e)
         /\ calls[c].pc # "idle" /\ Busy(c)
         /\ \A e \in CallIds : e # c => calls'[e] = calls[e]
         /\ \/ /\ points' = points /\ calls'[c].next = calls[c].next
               /\ calls'[c].vec = calls[c].vec
            \/ points' = points /\ calls'[c].next = calls[c].next /\ Prepare(c)
               /\ calls[c].vec = "off" /\ calls'[c].vec = "run"
            \/ VecWrite(c) \/ VecFail(c)
<1>1. /\ calls[c] \in CallType /\ CallOK(c) /\ calls \in [CallIds -> CallType]
      /\ calls[c].pc # "idle" /\ calls'[c].pc # "idle" /\ SameCall(c)
      /\ \A e \in CallIds : e # c => calls'[e] = calls[e]
  BY StepIsOneCall DEF CInv, TypeOK, OneCall, KeptCall
<1>2. Busy(c)
  BY DEF Step, Fault, Busy, Writing, Enroll, IndexDoc, CheckCache, Prepare, VecWrite, GraphWrite,
         Stored, StoreFails, Register, CacheFault, VecFail, GraphFail, RegisterFault
<1>3. ASSUME NEW pc, Goto(c, pc)
      PROVE  /\ calls'[c].alone = calls[c].alone /\ calls'[c].next = calls[c].next
             /\ calls'[c].vec = calls[c].vec
  BY <1>1, <1>3 DEF Goto, CallType
<1>4. ASSUME NEW result, End(c, result)
      PROVE  /\ calls'[c].alone = calls[c].alone /\ calls'[c].next = calls[c].next
             /\ calls'[c].vec = calls[c].vec
  BY <1>1, <1>4 DEF End, CallType
<1> DEFINE Still == /\ points' = points /\ calls'[c].next = calls[c].next
                    /\ calls'[c].vec = calls[c].vec /\ calls'[c].alone = calls[c].alone
           Starts == /\ points' = points /\ calls'[c].next = calls[c].next /\ Prepare(c)
                     /\ calls[c].vec = "off" /\ calls'[c].vec = "run"
                     /\ calls'[c].alone = calls[c].alone
           Writes == /\ VecWrite(c) \/ VecFail(c)
                     /\ calls'[c].vec # "off" /\ calls'[c].alone = calls[c].alone
<1>5. Still \/ Starts \/ Writes
  <2>1. CASE Enroll(c)
    BY <1>1, <2>1 DEF Enroll, CallType
  <2>2. CASE IndexDoc(c) \/ CheckCache(c) \/ CacheFault(c) \/ Stored(c) \/ StoreFails(c)
             \/ Register(c) \/ RegisterFault(c)
    BY <1>3, <1>4, <2>2 DEF IndexDoc, CheckCache, CacheFault, Stored, StoreFails, Register,
                            RegisterFault
  <2>3. CASE Prepare(c)
    <3>1. CASE End(c, "refused") \/ End(c, "failed")
      BY <1>4, <2>3, <3>1 DEF Prepare
    <3>2. CASE calls' = [calls EXCEPT ![c] = [@ EXCEPT !.pc = "store", !.vec = "run",
                                                        !.graph = "run"]]
      BY <1>1, <2>3, <3>2 DEF Prepare, CallOK, CallType
    <3> QED
      BY <2>3, <3>1, <3>2 DEF Prepare
  <2>4. CASE VecWrite(c)
    <3> DEFINE next == calls[c].next + BatchSize
               vec == IF next > ChunkCount[calls[c].content] + 1 THEN "done" ELSE "run"
    <3>1. calls'[c] = [calls[c] EXCEPT !.next = next, !.vec = vec] /\ vec # "off"
      BY <1>1, <2>4 DEF VecWrite
    <3> HIDE DEF next, vec
    <3> QED
      BY <1>1, <2>4, <3>1 DEF CallType
  <2>5. CASE VecFail(c)
    BY <1>1, <2>5 DEF VecFail, CallType
  <2>6. CASE GraphWrite(c) \/ GraphFail(c)
    BY <1>1, <2>6 DEF GraphWrite, GraphFail, CallType
  <2> QED
    BY <2>1, <2>2, <2>3, <2>4, <2>5, <2>6 DEF Step, Fault
<1>6. Goes(c)
  BY <1>1, <1>2, <1>5 DEF Goes
<1>7. ASSUME NEW e \in CallIds, e # c, calls[e].pc # "idle" PROVE Goes(e)
  BY <1>1, <1>7 DEF Goes, SameCall, Busy, Writing
<1> QED
  BY <1>1, <1>2, <1>5, <1>6, <1>7

LEMMA UpsertedIs ==
  ASSUME CInv, NEW c \in CallIds, calls[c].pc # "idle"
  PROVE  /\ \A k \in KBs, d \in Docs :
              ~ (k = calls[c].kb /\ d = calls[c].doc) => Upserted(c)[k][d] = points[k][d]
         /\ \A i \in Positions :
              Upserted(c)[calls[c].kb][calls[c].doc][i]
                 = IF \E n \in Batch(c) : i = Place(calls[c].content, n)
                   THEN calls[c].content ELSE points[calls[c].kb][calls[c].doc][i]
<1> DEFINE new == {Place(calls[c].content, n) : n \in Batch(c)}
           row == [i \in Positions |-> IF i \in new THEN calls[c].content
                                       ELSE points[calls[c].kb][calls[c].doc][i]]
<1>1. /\ calls[c].kb \in KBs /\ calls[c].doc \in Docs
      /\ points \in [KBs -> [Docs -> [Positions -> Contents \cup {None}]]]
  BY DEF CInv, CallOK, TypeOK
<1>2. Upserted(c) = [points EXCEPT ![calls[c].kb][calls[c].doc] = row]
  BY DEF Upserted
<1>3. \A i \in Positions : row[i] = IF \E n \in Batch(c) : i = Place(calls[c].content, n)
                                   THEN calls[c].content
                                   ELSE points[calls[c].kb][calls[c].doc][i]
  OBVIOUS
<1> HIDE DEF row
<1> QED
  BY <1>1, <1>2, <1>3

\* A request of one document leaves those alone whose last writer is another.
LEMMA OthersKept ==
  ASSUME WInv, NEW c \in CallIds, calls[c].vec = "run", points' \in {points, Upserted(c)},
         NEW e \in CallIds, e # c, calls[e].pc # "idle", Last(e), calls[e].vec # "off"
  PROVE  points'[calls[e].kb][calls[e].doc] = points[calls[e].kb][calls[e].doc]
<1>1. calls[c].pc # "idle" /\ Busy(c)
  BY DEF WInv, CInv, CallOK, IdleCall, Busy, Writing
<1>2. calls[e].kb \in KBs /\ calls[e].doc \in Docs
  BY DEF WInv, CInv, CallOK
<1>3. CASE SameDoc(e, c)
  <2>1. c <= e /\ calls[e].alone
    BY <1>3 DEF Last, SameDoc
  <2>2. c < e
    BY <2>1 DEF CallIds
  <2> QED
    BY <1>1, <1>3, <2>1, <2>2 DEF WInv, Apart
<1>4. CASE ~ SameDoc(e, c)
  BY <1>1, <1>2, <1>4, UpsertedIs DEF WInv, SameDoc
<1> QED
  BY <1>3, <1>4

LEMMA WInvInside ==
  ASSUME WInv, CInv', NEW c \in CallIds, Step(c) \/ Fault(c)
  PROVE  WInv'
<1>1. /\ \A e \in CallIds : calls[e].pc # "idle" => Goes(e)
      /\ calls[c].pc # "idle" /\ Busy(c) /\ CInv
      /\ \A e \in CallIds : e # c => calls'[e] = calls[e]
      /\ \/ /\ points' = points /\ calls'[c].next = calls[c].next
            /\ calls'[c].vec = calls[c].vec
         \/ points' = points /\ calls'[c].next = calls[c].next /\ Prepare(c)
            /\ calls[c].vec = "off" /\ calls'[c].vec = "run"
         \/ VecWrite(c) \/ VecFail(c)
  BY StepGoes DEF WInv
<1>2. \/ points' = points
      \/ calls[c].vec = "run" /\ points' \in {points, Upserted(c)}
  BY <1>1 DEF VecWrite, VecFail
<1>3. ASSUME NEW e \in CallIds, e # c, calls[e].pc # "idle" PROVE Sent(e)' /\ Written(e)'
  <2>1. calls'[e].next = calls[e].next /\ calls'[e].vec = calls[e].vec /\ Goes(e)
    BY <1>1, <1>3
  <2>2. CASE calls[e].vec = "off"
    BY <2>1, <2>2 DEF WInv, Sent, Written
  <2>3. CASE calls[e].vec # "off"
    <3>1. Last(e) => points'[calls[e].kb][calls[e].doc] = points[calls[e].kb][calls[e].doc]
      BY <1>2, <1>3, <2>3, OthersKept
    <3> QED
      BY <1>1, <1>3, <2>1, <3>1, WrittenKept
  <2> QED
    BY <2>2, <2>3
<1>4. Sent(c)' /\ Written(c)'
  <2>1. /\ Goes(c) /\ Sent(c) /\ Written(c) /\ (Last(c)' => Last(c))
        /\ calls[c] \in CallType /\ CallOK(c)
        /\ ChunkCount[calls[c].content] \in 1 .. MaxChunks
    BY <1>1, LastBefore, ChunkAssumption DEF WInv, CInv, TypeOK, CallOK
  <2>2. CASE /\ points' = points /\ calls'[c].next = calls[c].next
             /\ calls'[c].vec = calls[c].vec
    BY <1>1, <2>2, WrittenKept
  <2>3. CASE /\ calls'[c].next = calls[c].next /\ calls[c].vec = "off"
             /\ calls'[c].vec = "run"
    BY <2>1, <2>3 DEF Sent, Written
  <2>4. CASE VecFail(c)
    <3>1. calls'[c].vec = "error"
      BY <2>1, <2>4 DEF VecFail, CallType, CInv, TypeOK, WInv
    <3> QED
      BY <3>1 DEF Sent, Written
  <2>5. CASE VecWrite(c)
    <3> DEFINE x == calls[c].content
               next == calls[c].next + BatchSize
               vec == IF next > ChunkCount[x] + 1 THEN "done" ELSE "run"
    <3>1. calls'[c] = [calls[c] EXCEPT !.next = next, !.vec = vec]
      BY <2>1, <2>5 DEF VecWrite, WInv, CInv, TypeOK
    <3>2. /\ calls'[c].next = next /\ calls'[c].vec = vec /\ calls'[c].content = x
          /\ calls'[c].kb = calls[c].kb /\ calls'[c].doc = calls[c].doc
      <4> HIDE DEF next, vec
      <4> QED
        BY <2>1, <3>1 DEF CallType
    <3>3. points' = Upserted(c) /\ calls[c].vec = "run"
      BY <2>5 DEF VecWrite
    <3>4. Sent(c)'
      BY <3>2 DEF Sent
    <3>5. ASSUME Last(c)', NEW n \in 1 .. (ChunkCount[x] + 1), n < next
          PROVE  points'[calls[c].kb][calls[c].doc][Place(x, n)] = x
      <4>1. Place(x, n) \in Positions
        BY <2>1 DEF Place, Positions
      <4>2. points'[calls[c].kb][calls[c].doc][Place(x, n)]
               = IF \E m \in Batch(c) : Place(x, n) = Place(x, m)
                 THEN x ELSE points[calls[c].kb][calls[c].doc][Place(x, n)]
        BY <1>1, <3>3, <4>1, UpsertedIs
      <4>3. CASE n < calls[c].next
        <5>1. points[calls[c].kb][calls[c].doc][Place(x, n)] = x
          BY <2>1, <3>3, <3>5, <4>3 DEF Written
        <5> QED
          BY <4>2, <5>1
      <4>4. CASE ~ (n < calls[c].next)
        <5>1. n \in Batch(c)
          BY <2>1, <3>5, <4>4, ChunkAssumption DEF Batch, CallType
        <5> QED
          BY <4>2, <5>1
      <4> QED
        BY <4>3, <4>4
    <3> HIDE DEF next, vec
    <3> QED
      BY <3>2, <3>4, <3>5 DEF Written
  <2> QED
    BY <1>1, <2>2, <2>3, <2>4, <2>5
<1> QED
  BY <1>1, <1>3, <1>4, CallsGoOn

LEMMA WInvIngest ==
  ASSUME WInv, CInv', NEW c \in CallIds, NEW r \in RunIds, NEW run \in RunType,
         NEW d \in Docs, NEW x \in Contents, Ingest(c, r, run, d, x)
  PROVE  WInv'
<1> DEFINE others == Beside(run.kb, d)
           single == others = {}
<1>1. PICK after \in AfterGate(run, x) :
         calls' = [e \in CallIds |->
                     IF e = c
                     THEN [IdleCall EXCEPT !.pc = after.pc, !.result = after.result,
                                           !.run = r, !.kb = run.kb, !.doc = d,
                                           !.content = x, !.alone = single,
                                           !.entered = (after.pc = "index")]
                     ELSE IF e \in others THEN [calls[e] EXCEPT !.alone = FALSE]
                     ELSE calls[e]]
  BY DEF Ingest
<1>2. /\ CInv /\ calls \in [CallIds -> CallType] /\ points' = points
      /\ calls[c].pc = "idle" /\ \A e \in CallIds : e < c => calls[e].pc # "idle"
  BY DEF Ingest, WInv, CInv, TypeOK
<1>3. single \in BOOLEAN /\ (single => \A e \in CallIds : ~ (e \in others))
  OBVIOUS
<1>4. /\ calls'[c].vec = "off" /\ calls'[c].next = 1 /\ calls'[c].kb = run.kb
      /\ calls'[c].doc = d /\ calls'[c].alone = single
  <2> HIDE DEF single
  <2> QED
    BY <1>1 DEF IdleCall
<1>5. Made(c)
  BY <1>2, <1>3, <1>4 DEF Made, Beside
<1>6. ASSUME NEW e \in CallIds, e # c
      PROVE  /\ calls[e].pc = "idle" => calls'[e] = calls[e]
             /\ calls[e].pc # "idle" => Goes(e) /\ calls'[e].next = calls[e].next
                                       /\ calls'[e].vec = calls[e].vec
  <2>1. calls[e] \in CallType /\ CallOK(e)
    BY <1>2 DEF CInv
  <2>2. calls'[e] = calls[e] \/ (e \in others /\ calls'[e] = [calls[e] EXCEPT !.alone = FALSE])
    BY <1>1, <1>6
  <2>3. calls[e].pc = "idle" => e \notin others
    BY <2>1 DEF Beside, Busy, Writing, CallOK, IdleCall
  <2>4. CASE calls'[e] = calls[e]
    BY <2>4 DEF Goes, SameCall, Busy, Writing
  <2>5. CASE e \in others /\ calls'[e] = [calls[e] EXCEPT !.alone = FALSE]
    BY <2>1, <2>3, <2>5 DEF Goes, SameCall, Busy, Writing, CallType
  <2> QED
    BY <2>2, <2>4, <2>5
<1>7. \A e \in CallIds : calls[e].pc # "idle" => Goes(e)
  BY <1>2, <1>6
<1>8. \A e \in CallIds : calls[e].pc # "idle" => Sent(e)' /\ Written(e)'
  BY <1>2, <1>6, <1>7, WrittenKept
<1>9. \A e \in CallIds : calls[e].pc = "idle" => calls'[e] = calls[e] \/ Made(e)
  BY <1>5, <1>6
<1> QED
  BY <1>7, <1>8, <1>9, CallsGoOn

LEMMA WInvCutOff ==
  ASSUME WInv, CInv', NEW dead \in SUBSET RunIds, CutOff(dead), points' = points
  PROVE  WInv'
<1>1. CInv /\ calls \in [CallIds -> CallType]
  BY DEF WInv, CInv, TypeOK
<1>2. ASSUME NEW e \in CallIds
      PROVE  /\ calls[e].pc = "idle" => calls'[e] = calls[e]
             /\ calls[e].pc # "idle" =>
                   /\ Goes(e) /\ calls'[e].next = calls[e].next
                   /\ calls'[e].vec = calls[e].vec \/ calls'[e].vec = "cut"
  <2>1. calls[e] \in CallType /\ CallOK(e)
    BY <1>1 DEF CInv
  <2>2. CASE calls[e].run \notin dead
    <3>1. calls'[e] = calls[e]
      BY <2>2 DEF CutOff
    <3> QED
      BY <3>1 DEF Goes, SameCall, Busy, Writing
  <2>3. CASE calls[e].run \in dead
    <3> DEFINE res == IF calls[e].pc = "done" THEN calls[e].result ELSE "lost"
               v == IF calls[e].vec = "run" THEN "cut" ELSE calls[e].vec
               g == IF calls[e].graph = "run" THEN "cut" ELSE calls[e].graph
    <3>1. calls[e].pc # "idle"
      BY <2>1, <2>3 DEF CallOK, IdleCall, RunIds
    <3>2. calls'[e] = [calls[e] EXCEPT !.pc = "done", !.result = res, !.vec = v, !.graph = g]
      BY <2>1, <2>3 DEF CutOff, CallType
    <3>3. /\ v \in {calls[e].vec, "cut"} /\ v # "run" /\ g # "run"
          /\ calls[e].vec # "off" => v # "off"
      OBVIOUS
    <3> HIDE DEF res, v, g
    <3>4. /\ calls'[e].pc = "done" /\ calls'[e].vec = v /\ calls'[e].graph = g /\ SameCall(e)
          /\ calls'[e].next = calls[e].next /\ calls'[e].alone = calls[e].alone
      BY <2>1, <3>2 DEF CallType, SameCall
    <3>5. ~ Busy(e)'
      BY <3>3, <3>4 DEF Busy, Writing
    <3> QED
      BY <3>1, <3>3, <3>4, <3>5 DEF Goes
  <2> QED
    BY <2>2, <2>3
<1>3. \A e \in CallIds : calls[e].pc # "idle" => Goes(e)
  BY <1>2
<1>4. \A e \in CallIds : calls[e].pc # "idle" => Sent(e)' /\ Written(e)'
  BY <1>2, <1>3, WrittenKept
<1> QED
  BY <1>2, <1>3, <1>4, CallsGoOn

LEMMA WInvStep == WInv /\ [Next]_vars => WInv'
<1> SUFFICES ASSUME WInv, [Next]_vars PROVE WInv'
  OBVIOUS
<1>1. CInv /\ CInv' /\ boot \in 0 .. MaxBoots /\ \A r \in RunIds : runs[r] \in RunType
  <2>1. CInv /\ CInv'
    BY CInvStep DEF WInv
  <2> QED
    BY <2>1, BoundAssumption DEF CInv, TypeOK
<1>2. ASSUME NEW c \in CallIds, NEW r \in RunIds, NEW k \in KBs, NEW d \in Docs,
             NEW x \in Contents, FirstDocument(c, r, k, d, x)
      PROVE  WInv'
  <2>1. PICK mode \in Modes, force \in BOOLEAN :
          Ingest(c, r, [mode |-> mode, force |-> force, kb |-> k, boot |-> boot,
                        live |-> TRUE, seen |-> {}], d, x)
    BY <1>2 DEF FirstDocument, Modes
  <2> DEFINE run == [mode |-> mode, force |-> force, kb |-> k, boot |-> boot,
                     live |-> TRUE, seen |-> {}]
  <2>2. run \in RunType
    BY <1>1 DEF RunType
  <2> HIDE DEF run
  <2>3. Ingest(c, r, run, d, x)
    BY <2>1 DEF run
  <2> QED
    BY <1>1, <2>2, <2>3, WInvIngest
<1>3. ASSUME NEW c \in CallIds, NEW r \in RunIds, NEW d \in Docs, NEW x \in Contents,
             NextDocument(c, r, d, x)
      PROVE  WInv'
  BY <1>1, <1>3, WInvIngest DEF NextDocument
<1>4. ASSUME NEW c \in CallIds, Step(c) \/ Fault(c) PROVE WInv'
  BY <1>1, <1>4, WInvInside
<1>5. CASE RestartApi
  BY <1>1, <1>5, WInvCutOff DEF RestartApi
<1>6. ASSUME NEW r \in RunIds, CliDies(r) PROVE WInv'
  BY <1>1, <1>6, WInvCutOff DEF CliDies
<1>7. CASE UNCHANGED vars
  BY <1>1, <1>7 DEF vars, WInv, InOrder, Apart, SameDoc, Last, Sent, Written, Busy, Writing
<1> QED
  BY <1>2, <1>3, <1>4, <1>5, <1>6, <1>7 DEF Next

(***************************************************************************)
(* When the calls of a document never overlapped, the last one that finished *)
(* its points left the document whole, for any number of documents and        *)
(* contents, any lengths and batch size, and whatever failed or was cut off.  *)
(***************************************************************************)
THEOREM DocumentsWhole == Spec => []WholeDocument
<1>1. ASSUME WInv PROVE WholeDocument
  <2> SUFFICES ASSUME NEW k \in KBs, NEW d \in Docs,
                      \A c \in CallIds : calls[c].kb = k /\ calls[c].doc = d => calls[c].alone,
                      NEW c \in CallIds, calls[c].kb = k, calls[c].doc = d,
                      calls[c].vec = "done",
                      \A e \in CallIds : (calls[e].kb = k /\ calls[e].doc = d
                                          /\ calls[e].vec # "off") => e <= c,
                      NEW i \in Keys(calls[c].content)
               PROVE  points[k][d][i] = calls[c].content
    BY DEF WholeDocument
  <2>1. Last(c) /\ Sent(c) /\ Written(c) /\ calls[c] \in CallType /\ CallOK(c)
    BY <1>1 DEF Last, SameDoc, WInv, CInv, TypeOK
  <2>2. calls[c].content \in Contents
    BY <2>1 DEF CallOK, IdleCall
  <2>3. ChunkCount[calls[c].content] \in 1 .. MaxChunks
    BY <2>2, ChunkAssumption
  <2> DEFINE n == IF i = 0 THEN ChunkCount[calls[c].content] + 1 ELSE i
  <2>4. /\ n \in 1 .. (ChunkCount[calls[c].content] + 1) /\ n < calls[c].next
        /\ Place(calls[c].content, n) = i
    BY <2>1, <2>3 DEF Keys, Place, Sent, CallType
  <2> HIDE DEF n
  <2> QED
    BY <2>1, <2>4 DEF Written
<1> QED
  BY <1>1, WInvInit, WInvStep, PTL DEF Spec

=============================================================================
