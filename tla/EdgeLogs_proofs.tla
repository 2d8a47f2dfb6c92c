-------------------------- MODULE EdgeLogs_proofs --------------------------
(***************************************************************************)
(* Proofs about EdgeLogs for any queries, collect requests and faults.     *)
(***************************************************************************)
EXTENDS EdgeLogs, FiniteSetTheorems, TLAPS

---------------------------------------------------------------------------
(* Files and lines                                                         *)

LEMMA AppendedOf ==
    ASSUME NEW f \in Seq(Lines), NEW g \in Seq(Lines)
    PROVE  f \o g \in Seq(Lines) /\ Of(f \o g) = Of(f) \cup Of(g)
<1>1. f \o g \in Seq(Lines)
  OBVIOUS
<1>2. Len(f \o g) = Len(f) + Len(g) /\ Len(f) \in Nat /\ Len(g) \in Nat
  OBVIOUS
<1>3. \A i \in 1..Len(f) : i \in 1..(Len(f) + Len(g)) /\ (f \o g)[i] = f[i]
  BY <1>2
<1>4. \A i \in 1..Len(g) : /\ Len(f) + i \in 1..(Len(f) + Len(g))
                           /\ (f \o g)[Len(f) + i] = g[i]
  BY <1>2
<1>5. \A i \in 1..(Len(f) + Len(g)) :
          i \in 1..Len(f) \/ \E j \in 1..Len(g) : i = Len(f) + j
  <2> TAKE i \in 1..(Len(f) + Len(g))
  <2>1. i \notin 1..Len(f) => i - Len(f) \in 1..Len(g) /\ i = Len(f) + (i - Len(f))
    BY <1>2
  <2> QED  BY <2>1
<1>6. /\ DOMAIN (f \o g) = 1..(Len(f) + Len(g))
      /\ DOMAIN f = 1..Len(f) /\ DOMAIN g = 1..Len(g)
  BY <1>1, <1>2
<1>7. Of(f \o g) \subseteq Of(f) \cup Of(g)
  <2> SUFFICES ASSUME NEW i \in 1..(Len(f) + Len(g))
               PROVE  (f \o g)[i].of \in Of(f) \cup Of(g)
    BY <1>6 DEF Of
  <2>1. CASE i \in 1..Len(f)
    BY <1>3, <1>6, <2>1 DEF Of
  <2>2. CASE \E j \in 1..Len(g) : i = Len(f) + j
    BY <1>4, <1>6, <2>2 DEF Of
  <2> QED  BY <1>5, <2>1, <2>2
<1>8. Of(f) \subseteq Of(f \o g)
  BY <1>3, <1>6 DEF Of
<1>9. Of(g) \subseteq Of(f \o g)
  BY <1>4, <1>6 DEF Of
<1> QED  BY <1>1, <1>7, <1>8, <1>9

LEMMA LineOf ==
    ASSUME NEW q \in Queries, NEW s \in {"whole", "cut", "joined"}
    PROVE  Line(q, s) \in Seq(Lines) /\ Of(Line(q, s)) = {q}
BY DEF Line, Lines, Of

LEMMA HeadOf ==
    ASSUME NEW g \in Seq(Lines), g # <<>>
    PROVE  /\ Head(g) \in Lines /\ Tail(g) \in Seq(Lines)
           /\ Of(g) = {Head(g).of} \cup Of(Tail(g))
<1>1. Head(g) \in Lines /\ Tail(g) \in Seq(Lines) /\ Head(g) = g[1]
  OBVIOUS
<1>2. Len(g) \in Nat \ {0} /\ Len(Tail(g)) = Len(g) - 1
  OBVIOUS
<1>3. DOMAIN g = 1..Len(g) /\ DOMAIN Tail(g) = 1..(Len(g) - 1)
  BY <1>1, <1>2
<1>4. \A i \in 1..(Len(g) - 1) : Tail(g)[i] = g[i + 1] /\ i + 1 \in 1..Len(g)
  BY <1>2
<1>5. \A i \in 1..Len(g) : i = 1 \/ (i - 1 \in 1..(Len(g) - 1) /\ g[i] = Tail(g)[i - 1])
  BY <1>2
<1>6. Of(g) \subseteq {Head(g).of} \cup Of(Tail(g))
  <2> SUFFICES ASSUME NEW i \in 1..Len(g)
               PROVE  g[i].of \in {Head(g).of} \cup Of(Tail(g))
    BY <1>3 DEF Of
  <2>1. CASE i = 1
    BY <1>1, <2>1
  <2>2. CASE i - 1 \in 1..(Len(g) - 1) /\ g[i] = Tail(g)[i - 1]
    BY <1>3, <2>2 DEF Of
  <2> QED  BY <1>5, <2>1, <2>2
<1>7. Of(Tail(g)) \subseteq Of(g)
  BY <1>3, <1>4 DEF Of
<1>8. Head(g).of \in Of(g)
  <2>1. 1 \in DOMAIN g
    BY <1>2, <1>3
  <2> QED  BY <1>1, <2>1 DEF Of
<1> QED  BY <1>1, <1>6, <1>7, <1>8

\* Appending loses no query, whether or not a line is joined to a cut one.
LEMMA JoinOf ==
    ASSUME NEW f \in Seq(Lines), NEW g \in Seq(Lines)
    PROVE  Join(f, g) \in Seq(Lines) /\ Of(Join(f, g)) = Of(f) \cup Of(g)
<1>1. CASE EndsCut(f) /\ g # <<>> /\ Head(g).state = "whole"
  <2> DEFINE l == Line(Head(g).of, "joined")
  <2>1. /\ Head(g) \in Lines /\ Tail(g) \in Seq(Lines)
        /\ Of(g) = {Head(g).of} \cup Of(Tail(g))
    BY <1>1, HeadOf
  <2>2. Head(g).of \in Queries
    BY <2>1 DEF Lines
  <2>3. l \in Seq(Lines) /\ Of(l) = {Head(g).of}
    BY <2>2, LineOf
  <2>4. Join(f, g) = f \o l \o Tail(g)
    BY <1>1 DEF Join
  <2> HIDE DEF l
  <2>5. f \o l \in Seq(Lines) /\ Of(f \o l) = Of(f) \cup Of(l)
    BY <2>3, AppendedOf
  <2>6. /\ (f \o l) \o Tail(g) \in Seq(Lines)
        /\ Of((f \o l) \o Tail(g)) = Of(f \o l) \cup Of(Tail(g))
    BY <2>1, <2>5, AppendedOf
  <2> QED  BY <2>1, <2>3, <2>4, <2>5, <2>6
<1>2. CASE ~(EndsCut(f) /\ g # <<>> /\ Head(g).state = "whole")
  BY <1>2, AppendedOf DEF Join
<1> QED  BY <1>1, <1>2

LEMMA ParsedOf ==
    ASSUME NEW f \in Seq(Lines)
    PROVE  Parsed(f) \subseteq Of(f) /\ Of(f) \subseteq Queries
<1>1. Parsed(f) \subseteq Of(f)
  BY DEF Parsed, Of
<1>2. \A i \in DOMAIN f : f[i] \in Lines
  OBVIOUS
<1> QED  BY <1>1, <1>2 DEF Of, Lines

LEMMA EmptyOf == Of(<<>>) = {} /\ <<>> \in Seq(Lines)
BY DEF Of

\* What a thread's write makes of the files.
LEMMA PutOf ==
    ASSUME TypeOK, NEW q \in Queries, NEW s \in {"whole", "cut"},
           writer[q] \in Open, Put(q, Line(q, s))
    PROVE  /\ log' \in Seq(Lines) /\ upload' \in Seq(Lines) /\ left' \subseteq Queries
           /\ Of(log') = IF writer[q] = "log" THEN Of(log) \cup {q} ELSE Of(log)
           /\ Of(upload') = IF writer[q] = "upload" THEN Of(upload) \cup {q} ELSE Of(upload)
           /\ left' = IF writer[q] = "left" THEN left \cup {q} ELSE left
<1>1. Line(q, s) \in Seq(Lines) /\ Of(Line(q, s)) = {q}
  BY LineOf
<1>2. /\ Join(log, Line(q, s)) \in Seq(Lines)
      /\ Of(Join(log, Line(q, s))) = Of(log) \cup {q}
      /\ Join(upload, Line(q, s)) \in Seq(Lines)
      /\ Of(Join(upload, Line(q, s))) = Of(upload) \cup {q}
  BY <1>1, JoinOf DEF TypeOK
<1> QED  BY <1>2 DEF Put, TypeOK

LEMMA FaultType ==
    ASSUME TypeOK, Fault
    PROVE  faults' \in 0..MaxFaults
BY LogsAssumption DEF Fault, TypeOK

LEMMA MovedTo ==
    ASSUME TypeOK, NEW from \in Open, NEW to \in Open, Moved(from, to)
    PROVE  /\ writer' \in [Queries -> Open \cup {"none", "done", "failed"}]
           /\ \A q \in Queries : /\ writer[q] # from => writer'[q] = writer[q]
                                 /\ writer[q] = from => writer'[q] = to
BY DEF Moved, TypeOK

LEMMA LeaveMoves ==
    ASSUME TypeOK, Leave
    PROVE  /\ writer' \in [Queries -> Open \cup {"none", "done", "failed"}]
           /\ \A q \in Queries : /\ writer[q] # "upload" => writer'[q] = writer[q]
                                 /\ writer[q] = "upload" => writer'[q] = "left"
           /\ left' = left \cup Of(upload) /\ left' \subseteq Queries
           /\ upload' = <<>> /\ sync' = NoUpload
<1>1. Of(upload) \subseteq Queries
  BY ParsedOf DEF TypeOK
<1> QED
  BY <1>1, MovedTo DEF Leave, Open, TypeOK

\* counts that grow, and what S3 takes
LEMMA OneMoreType ==
    ASSUME NEW counts \in [Queries -> Nat], NEW qs
    PROVE  OneMore(counts, qs) \in [Queries -> Nat]
BY DEF OneMore

LEMMA TakenType ==
    ASSUME TypeOK, Taken
    PROVE  object' \in Seq(Lines) /\ sent' \subseteq Queries /\ causes' \in [Queries -> Nat]
<1>1. sync.body \in Seq(Lines)
  BY DEF Uploads, TypeOK
<1>2. Of(sync.body) \subseteq Queries
  BY <1>1, ParsedOf
<1> QED
  BY <1>1, <1>2, OneMoreType DEF Taken, Counted, TypeOK

LEMMA TypeStep ==
    ASSUME TypeOK, [Next]_vars
    PROVE  TypeOK'
<1>1. ASSUME NEW q \in Queries, OpenLog(q) PROVE TypeOK'
  BY <1>1 DEF OpenLog, OnlyServer, centre, files, Open, TypeOK
<1>2. ASSUME NEW q \in Queries, WriteLine(q) PROVE TypeOK'
  <2>1. /\ log' \in Seq(Lines) /\ upload' \in Seq(Lines) /\ left' \subseteq Queries
    BY <1>2, PutOf DEF WriteLine
  <2> QED
    BY <1>2, <2>1 DEF WriteLine, OnlyServer, centre, TypeOK
<1>3. ASSUME NEW q \in Queries, WriteFails(q) PROVE TypeOK'
  <2>1. /\ log' \in Seq(Lines) /\ upload' \in Seq(Lines) /\ left' \subseteq Queries
    BY <1>3, PutOf DEF WriteFails, files, TypeOK
  <2> QED
    BY <1>3, <2>1, LogsAssumption DEF WriteFails, Fault, OnlyServer, centre, TypeOK
<1>4. CASE Rename
  BY <1>4, EmptyOf DEF Rename, OnlySync, centre, GoTo, Moved, Stages, Uploads, Open,
      TypeOK
<1>5. CASE ReadBody
  BY <1>5 DEF ReadBody, OnlySync, centre, files, Stages, Uploads, TypeOK
<1>6. CASE PutBody
  <2>1. sync \in Uploads /\ sync' \in Uploads /\ sync.body \in Seq(Lines)
    BY <1>6 DEF PutBody, GoTo, Uploads, Stages, TypeOK
  <2>2. object' \in Seq(Lines) /\ sent' \subseteq Queries /\ causes' \in [Queries -> Nat]
    BY <1>6, <2>1, TakenType DEF PutBody
  <2> QED
    BY <1>6, <2>1, <2>2 DEF PutBody, files, TypeOK
<1>7. CASE Unlink
  BY <1>7 DEF Unlink, OnlySync, centre, Moved, NoUpload, Stages, Uploads, Open, TypeOK
<1>8. CASE AppendBack
  <2>1. log' \in Seq(Lines)
    BY <1>8, JoinOf DEF AppendBack, TypeOK
  <2> QED
    BY <1>8, <2>1 DEF AppendBack, GoTo, OnlySync, centre, Uploads, Stages, TypeOK
<1>9. CASE ReadFails
  <2>1. sync' \in Uploads
    BY <1>9 DEF ReadFails, GoTo, Uploads, Stages, TypeOK
  <2> QED
    BY <1>9, <2>1, FaultType DEF ReadFails, OnlySync, centre, files, TypeOK
<1>10. CASE PutFails
  <2>2. object' \in Seq(Lines) /\ sent' \subseteq Queries /\ causes' \in [Queries -> Nat]
    BY <1>10, TakenType DEF PutFails, TypeOK
  <2>3. NoUpload \in Uploads
    BY EmptyOf DEF NoUpload, Uploads, Stages
  <2> QED
    BY <1>10, <2>2, <2>3, FaultType, LeaveMoves, EmptyOf DEF PutFails, TypeOK
<1>11. CASE UnlinkFails
  <2>1. sync' \in Uploads
    BY <1>11 DEF UnlinkFails, GoTo, Uploads, Stages, TypeOK
  <2> QED
    BY <1>11, <2>1, FaultType DEF UnlinkFails, OnlySync, centre, files, TypeOK
<1>12. CASE RunEnds
  <2>1. NoUpload \in Uploads
    BY EmptyOf DEF NoUpload, Uploads, Stages
  <2> QED
    BY <1>12, <2>1, FaultType, LeaveMoves, EmptyOf DEF RunEnds, OnlySync, centre, TypeOK
<1>13. ASSUME NEW c \in Collectors, ListObjects(c) PROVE TypeOK'
  BY <1>13 DEF ListObjects, OnlyCollector, files, Collects, TypeOK
<1>14. ASSUME NEW c \in Collectors, GetObject(c) PROVE TypeOK'
  <2>1. causes' \in [Queries -> Nat]
    <3>1. causes \in [Queries -> Nat]
      BY DEF TypeOK
    <3>2. CASE UNCHANGED causes
      BY <3>1, <3>2
    <3>3. CASE Counted(Shared(c, Parsed(object)))
      BY <3>1, <3>3, OneMoreType DEF Counted
    <3> QED  BY <1>14, <3>2, <3>3 DEF GetObject
  <2>2. collector' \in [Collectors -> Collects]
    <3>1. collector' = [collector EXCEPT ![c] = Idle]
          \/ collector' = [collector EXCEPT ![c] = [pc |-> "delete", got |-> Parsed(object)]]
      BY <1>14 DEF GetObject
    <3>2. Parsed(object) \subseteq Queries
      BY ParsedOf DEF TypeOK
    <3>3. Idle \in Collects /\ [pc |-> "delete", got |-> Parsed(object)] \in Collects
      BY <3>2 DEF Idle, Collects
    <3> QED  BY <3>1, <3>3 DEF TypeOK
  <2> QED
    BY <1>14, <2>1, <2>2 DEF GetObject, OnlyCollector, files, TypeOK
<1>15. ASSUME NEW c \in Collectors, GetFails(c) PROVE TypeOK'
  <2>1. collector' \in [Collectors -> Collects]
    BY <1>15 DEF GetFails, Collects, TypeOK
  <2> QED
    BY <1>15, <2>1, FaultType DEF GetFails, OnlyCollector, files, TypeOK
<1>16. ASSUME NEW c \in Collectors, DeleteObject(c) PROVE TypeOK'
  BY <1>16, EmptyOf DEF DeleteObject, OnlyCollector, files, Collects, TypeOK
<1>17. ASSUME NEW c \in Collectors, DeleteFails(c) PROVE TypeOK'
  <2>1. causes' \in [Queries -> Nat]
    BY <1>17, OneMoreType DEF DeleteFails, Counted, TypeOK
  <2>2. collector' \in [Collectors -> Collects]
    BY <1>17 DEF DeleteFails, Collects, TypeOK
  <2> QED
    BY <1>17, <2>1, <2>2, FaultType DEF DeleteFails, OnlyCollector, files, TypeOK
<1>18. ASSUME NEW c \in Collectors, SaveRows(c) PROVE TypeOK'
  <2>1. rows' \in [Queries -> Nat]
    BY <1>18, OneMoreType DEF SaveRows, Saved, TypeOK
  <2>2. collector' \in [Collectors -> Collects]
    BY <1>18 DEF SaveRows, Idle, Collects, TypeOK
  <2> QED
    BY <1>18, <2>1, <2>2 DEF SaveRows, OnlyCollector, files, TypeOK
<1>19. ASSUME NEW c \in Collectors, CollectEnds(c) PROVE TypeOK'
  <2>1. collector' \in [Collectors -> Collects]
    BY <1>19 DEF CollectEnds, Idle, Collects, TypeOK
  <2>2. object' \in Seq(Lines)
    BY <1>19, EmptyOf DEF CollectEnds, TypeOK
  <2>3. rows' \in [Queries -> Nat]
    <3>1. PICK part \in SUBSET collector[c].got : rows' = OneMore(rows, part)
      BY <1>19 DEF CollectEnds, Saved
    <3> QED  BY <3>1, OneMoreType DEF TypeOK
  <2> QED
    BY <1>19, <2>1, <2>2, <2>3, FaultType DEF CollectEnds, OnlyCollector, files, TypeOK
<1>20. CASE UNCHANGED vars
  BY <1>20 DEF vars, centre, files, TypeOK
<1> QED
  BY <1>1, <1>2, <1>3, <1>4, <1>5, <1>6, <1>7, <1>8, <1>9, <1>10,
     <1>11, <1>12, <1>13, <1>14, <1>15, <1>16, <1>17, <1>18, <1>19, <1>20 DEF Next

---------------------------------------------------------------------------
(* What left the store was sent                                            *)

Done(q) == writer[q] = "done"

\* A query in a file was written.  Those in the file of the upload under way are
\* in the body it read, in a body that S3 took, or back in the log, or came late.
KeptInv ==
    /\ KeptOrSent
    /\ \A q \in Of(log) \cup Of(upload) : writer[q] \in {"done", "failed"}
    /\ At("off") => upload = <<>> /\ \A q \in Queries : writer[q] # "upload"
    /\ At("put") => \A q \in Of(upload) : Done(q) => q \in Of(sync.body) \cup late
    /\ At("unlink") => \A q \in Of(upload) : Done(q) => q \in sent \cup late
    /\ At("drop") => \A q \in Of(upload) : Done(q) => q \in Of(log) \cup late

LEMMA KeptStep ==
    ASSUME TypeOK, KeptInv, [Next]_vars
    PROVE  KeptInv'
<1>1. ASSUME NEW q \in Queries, OpenLog(q) PROVE KeptInv'
  BY <1>1 DEF OpenLog, OnlyServer, files, KeptInv, KeptOrSent, Done, At
<1>2. ASSUME NEW q \in Queries, WriteLine(q) PROVE KeptInv'
  <2>1. /\ Of(log') = IF writer[q] = "log" THEN Of(log) \cup {q} ELSE Of(log)
        /\ Of(upload') = IF writer[q] = "upload" THEN Of(upload) \cup {q} ELSE Of(upload)
        /\ left' = IF writer[q] = "left" THEN left \cup {q} ELSE left
    BY <1>2, PutOf DEF WriteLine
  <2>2. UNCHANGED <<sync, sent>> /\ writer[q] \in Open
        /\ writer' = [writer EXCEPT ![q] = "done"]
    BY <1>2 DEF WriteLine, OnlyServer
  <2>3. late \subseteq late'
        /\ (writer[q] = "gone" \/ (writer[q] = "upload" /\ IsRead) => q \in late')
    BY <1>2 DEF WriteLine
  <2>4. writer[q] # "upload" => upload' = upload
    BY <1>2 DEF WriteLine, Put
  <2>5. KeptOrSent'
    BY <2>1, <2>2, <2>3 DEF KeptInv, KeptOrSent, Open, TypeOK
  <2>6. \A p \in Of(log') \cup Of(upload') : writer'[p] \in {"done", "failed"}
    BY <2>1, <2>2 DEF KeptInv, TypeOK
  <2>7. q \notin Of(log) \cup Of(upload)
    BY <2>2 DEF KeptInv, Open
  <2> QED
    BY <2>1, <2>2, <2>3, <2>4, <2>5, <2>6, <2>7 DEF KeptInv, Done, IsRead, At, TypeOK
<1>3. ASSUME NEW q \in Queries, WriteFails(q) PROVE KeptInv'
  <2>1. /\ \/ Of(log') = Of(log) \/ Of(log') = Of(log) \cup {q}
        /\ \/ Of(upload') = Of(upload) \/ Of(upload') = Of(upload) \cup {q}
        /\ left \subseteq left'
    BY <1>3, PutOf DEF WriteFails, files
  <2>2. UNCHANGED <<sync, sent, late>> /\ writer[q] \in Open
        /\ writer' = [writer EXCEPT ![q] = "failed"]
    BY <1>3 DEF WriteFails, OnlyServer
  <2>3. writer[q] # "upload" => upload' = upload
    BY <1>3 DEF WriteFails, Put, files
  <2> QED
    BY <2>1, <2>2, <2>3 DEF KeptInv, KeptOrSent, Done, Open, At, TypeOK
<1>4. CASE Rename
  <2>1. /\ At("off") /\ upload' = log /\ log' = <<>> /\ sync'.pc = "read"
        /\ UNCHANGED <<left, sent, late>>
    BY <1>4 DEF Rename, At, GoTo, OnlySync, Uploads, TypeOK
  <2>2. \A q \in Queries : /\ writer[q] # "log" => writer'[q] = writer[q]
                           /\ writer[q] = "log" => writer'[q] = "upload"
    BY <1>4, MovedTo DEF Rename, Open
  <2>3. Of(log) \subseteq Queries
    BY ParsedOf DEF TypeOK
  <2>4. \A q \in Queries : /\ writer'[q] = "done" <=> writer[q] = "done"
                           /\ writer'[q] = "failed" <=> writer[q] = "failed"
    BY <2>2 DEF TypeOK
  <2>5. Of(upload') = Of(log) /\ Of(log') = {}
    BY <2>1, EmptyOf
  <2>6. Of(upload) = {}
    BY <2>1, EmptyOf DEF KeptInv
  <2>7. KeptOrSent'
    BY <2>1, <2>4, <2>5, <2>6 DEF KeptInv, KeptOrSent, At, TypeOK
  <2>8. \A q \in Of(log') \cup Of(upload') : writer'[q] \in {"done", "failed"}
    BY <2>1, <2>3, <2>4, <2>5 DEF KeptInv, TypeOK
  <2> QED
    BY <2>1, <2>7, <2>8 DEF KeptInv, At
<1>5. CASE ReadBody
  BY <1>5 DEF ReadBody, OnlySync, files, At, KeptInv, KeptOrSent
<1>6. CASE PutBody
  BY <1>6 DEF PutBody, files, At, GoTo, Taken, KeptInv, KeptOrSent, Done
<1>7. CASE Unlink
  <2>1. /\ At("unlink") \/ At("drop")
        /\ upload' = <<>> /\ sync'.pc = "off" /\ UNCHANGED <<log, left, sent, late>>
    BY <1>7 DEF Unlink, At, NoUpload, OnlySync
  <2>2. \A q \in Queries : /\ writer[q] # "upload" => writer'[q] = writer[q]
                           /\ writer[q] = "upload" => writer'[q] = "gone"
    BY <1>7, MovedTo DEF Unlink, Open
  <2>3. Of(log) \subseteq Queries /\ Of(upload) \subseteq Queries
    BY ParsedOf DEF TypeOK
  <2>4. \A q \in Queries : /\ writer'[q] = "done" <=> writer[q] = "done"
                           /\ writer'[q] = "failed" <=> writer[q] = "failed"
    BY <2>2 DEF TypeOK
  <2>5. Of(upload') = {} /\ Of(log') = Of(log)
    BY <2>1, EmptyOf
  <2>6. KeptOrSent'
    BY <2>1, <2>3, <2>4, <2>5 DEF KeptInv, KeptOrSent, Done, At
  <2>7. \A q \in Of(log') \cup Of(upload') : writer'[q] \in {"done", "failed"}
    BY <2>1, <2>3, <2>4, <2>5 DEF KeptInv, TypeOK
  <2>8. \A q \in Queries : writer'[q] # "upload"
    BY <2>2 DEF TypeOK
  <2> QED
    BY <2>1, <2>6, <2>7, <2>8 DEF KeptInv, At
<1>8. CASE AppendBack
  <2>1. Of(log') = Of(log) \cup Of(upload)
    BY <1>8, JoinOf DEF AppendBack, TypeOK
  <2> QED
    BY <1>8, <2>1 DEF AppendBack, GoTo, OnlySync, KeptInv, KeptOrSent, Done, At,
        Uploads, TypeOK
<1>9. CASE ReadFails
  BY <1>9 DEF ReadFails, OnlySync, files, At, GoTo, Fault, KeptInv, KeptOrSent
<1>10. CASE PutFails
  <2>1. sync'.pc = "off" /\ sent \subseteq sent' /\ UNCHANGED <<log, late>>
    BY <1>10, LeaveMoves DEF PutFails, NoUpload, Taken
  <2>2. \A q \in Queries : /\ writer[q] # "upload" => writer'[q] = writer[q]
                           /\ writer[q] = "upload" => writer'[q] = "left"
    BY <1>10, LeaveMoves DEF PutFails
  <2>3. Of(log) \subseteq Queries /\ Of(upload) \subseteq Queries
    BY ParsedOf DEF TypeOK
  <2>4. \A q \in Queries : /\ writer'[q] = "done" <=> writer[q] = "done"
                           /\ writer'[q] = "failed" <=> writer[q] = "failed"
    BY <2>2 DEF TypeOK
  <2>5. upload' = <<>> /\ Of(upload') = {} /\ left' = left \cup Of(upload)
    BY <1>10, LeaveMoves, EmptyOf DEF PutFails
  <2>6. KeptOrSent'
    BY <2>1, <2>4, <2>5 DEF KeptInv, KeptOrSent
  <2>7. \A q \in Of(log') \cup Of(upload') : writer'[q] \in {"done", "failed"}
    BY <2>1, <2>3, <2>4, <2>5 DEF KeptInv, TypeOK
  <2>8. \A q \in Queries : writer'[q] # "upload"
    BY <2>2 DEF TypeOK
  <2> QED
    BY <2>1, <2>5, <2>6, <2>7, <2>8 DEF KeptInv, At
<1>11. CASE UnlinkFails
  BY <1>11 DEF UnlinkFails, OnlySync, files, At, GoTo, Fault, KeptInv, KeptOrSent
<1>12. CASE RunEnds
  <2>1. sync'.pc = "off" /\ sent \subseteq sent' /\ UNCHANGED <<log, late>>
    BY <1>12, LeaveMoves DEF RunEnds, NoUpload, OnlySync
  <2>2. \A q \in Queries : /\ writer[q] # "upload" => writer'[q] = writer[q]
                           /\ writer[q] = "upload" => writer'[q] = "left"
    BY <1>12, LeaveMoves DEF RunEnds
  <2>3. Of(log) \subseteq Queries /\ Of(upload) \subseteq Queries
    BY ParsedOf DEF TypeOK
  <2>4. \A q \in Queries : /\ writer'[q] = "done" <=> writer[q] = "done"
                           /\ writer'[q] = "failed" <=> writer[q] = "failed"
    BY <2>2 DEF TypeOK
  <2>5. upload' = <<>> /\ Of(upload') = {} /\ left' = left \cup Of(upload)
    BY <1>12, LeaveMoves, EmptyOf DEF RunEnds
  <2>6. KeptOrSent'
    BY <2>1, <2>4, <2>5 DEF KeptInv, KeptOrSent
  <2>7. \A q \in Of(log') \cup Of(upload') : writer'[q] \in {"done", "failed"}
    BY <2>1, <2>3, <2>4, <2>5 DEF KeptInv, TypeOK
  <2>8. \A q \in Queries : writer'[q] # "upload"
    BY <2>2 DEF TypeOK
  <2> QED
    BY <2>1, <2>5, <2>6, <2>7, <2>8 DEF KeptInv, At
<1>13. ASSUME NEW c \in Collectors, ListObjects(c) PROVE KeptInv'
  BY <1>13 DEF ListObjects, OnlyCollector, files, KeptInv, KeptOrSent, Done, At
<1>14. ASSUME NEW c \in Collectors, GetObject(c) PROVE KeptInv'
  BY <1>14 DEF GetObject, OnlyCollector, files, KeptInv, KeptOrSent, Done, At
<1>15. ASSUME NEW c \in Collectors, GetFails(c) PROVE KeptInv'
  BY <1>15 DEF GetFails, OnlyCollector, files, Fault, KeptInv, KeptOrSent, Done, At
<1>16. ASSUME NEW c \in Collectors, DeleteObject(c) PROVE KeptInv'
  BY <1>16 DEF DeleteObject, OnlyCollector, files, KeptInv, KeptOrSent, Done, At
<1>17. ASSUME NEW c \in Collectors, DeleteFails(c) PROVE KeptInv'
  BY <1>17 DEF DeleteFails, OnlyCollector, files, Fault, KeptInv, KeptOrSent, Done, At
<1>18. ASSUME NEW c \in Collectors, SaveRows(c) PROVE KeptInv'
  BY <1>18 DEF SaveRows, OnlyCollector, files, KeptInv, KeptOrSent, Done, At
<1>19. ASSUME NEW c \in Collectors, CollectEnds(c) PROVE KeptInv'
  BY <1>19 DEF CollectEnds, OnlyCollector, files, Fault, KeptInv, KeptOrSent, Done, At
<1>20. CASE UNCHANGED vars
  BY <1>20 DEF vars, files, KeptInv, KeptOrSent, Done, At
<1> QED
  BY <1>1, <1>2, <1>3, <1>4, <1>5, <1>6, <1>7, <1>8, <1>9, <1>10,
     <1>11, <1>12, <1>13, <1>14, <1>15, <1>16, <1>17, <1>18, <1>19, <1>20 DEF Next

---------------------------------------------------------------------------
(* Every row has its cause                                                 *)

Holders(q) == {c \in Collectors : q \in collector[c].got}
One(b) == IF b THEN 1 ELSE 0

\* No request that is about to delete the object has read q from it.
Free(q) == q \in Of(object) /\ \A c \in Holders(q) : ~Deleting(c)

\* Each cause is spent at most once: on a row, on a request that holds the query,
\* or on a copy in the object that a later request may still read.
Spent(q) == rows[q] + Cardinality(Holders(q)) + One(Free(q))

CauseInv ==
    /\ \A c \in Collectors : collector[c].pc \in {"idle", "get"} => collector[c].got = {}
    /\ \A q \in Queries : Spent(q) <= causes[q]

LEMMA HoldersCount ==
    ASSUME NEW q
    PROVE  IsFiniteSet(Holders(q)) /\ Cardinality(Holders(q)) \in Nat
<1>1. IsFiniteSet(Holders(q))
  BY LogsAssumption, FS_Subset DEF Holders
<1> QED
  BY <1>1, FS_CardinalityType

\* A request that reads a query, and one that lets go of it.
LEMMA HoldersGain ==
    ASSUME NEW q, NEW c, c \notin Holders(q), Holders(q)' = Holders(q) \cup {c}
    PROVE  Cardinality(Holders(q)') = Cardinality(Holders(q)) + 1
BY HoldersCount, FS_AddElement

LEMMA HoldersLose ==
    ASSUME NEW q, NEW c, c \in Holders(q), Holders(q)' = Holders(q) \ {c}
    PROVE  Cardinality(Holders(q)') = Cardinality(Holders(q)) - 1
BY HoldersCount, FS_RemoveElement

LEMMA OneMoreIs ==
    ASSUME NEW counts, NEW qs, NEW q \in Queries
    PROVE  OneMore(counts, qs)[q] = counts[q] + One(q \in qs)
BY DEF OneMore, One

\* Who holds what after a step of one request.
LEMMA HoldersAfter ==
    ASSUME TypeOK, NEW c \in Collectors, NEW r \in Collects,
           collector' = [collector EXCEPT ![c] = r], NEW q \in Queries
    PROVE  Holders(q)' = IF q \in r.got THEN Holders(q) \cup {c} ELSE Holders(q) \ {c}
<1>1. \A d \in Collectors : collector'[d] = IF d = c THEN r ELSE collector[d]
  BY DEF TypeOK
<1> QED
  BY <1>1 DEF Holders

\* a request that goes on with what it holds
LEMMA GoesOn ==
    ASSUME TypeOK, NEW c \in Collectors, NEW stage \in {"get", "delete", "save"},
           collector' = [collector EXCEPT ![c].pc = stage]
    PROVE  /\ collector' = [collector EXCEPT ![c] = [pc |-> stage, got |-> collector[c].got]]
           /\ [pc |-> stage, got |-> collector[c].got] \in Collects
<1>1. collector[c] \in Collects
  BY DEF TypeOK
<1>2. [collector[c] EXCEPT !.pc = stage] = [pc |-> stage, got |-> collector[c].got]
  BY <1>1 DEF Collects
<1> QED
  BY <1>1, <1>2 DEF Collects

\* A step that leaves the centre alone, and one in which S3 takes a body.
LEMMA CentreIdle ==
    ASSUME CauseInv, UNCHANGED <<centre, causes>>
    PROVE  CauseInv'
BY DEF CauseInv, centre, Spent, Holders, Free, Deleting

LEMMA CentreTakes ==
    ASSUME TypeOK, CauseInv, Taken, UNCHANGED <<collector, rows>>
    PROVE  CauseInv'
<1> SUFFICES ASSUME NEW q \in Queries
             PROVE  Spent(q)' <= causes'[q]
  BY DEF CauseInv
<1>1. Holders(q)' = Holders(q) /\ rows'[q] = rows[q] /\ object' = sync.body
  BY DEF Holders, Taken
<1>2. causes'[q] = causes[q] + One(q \in Of(sync.body))
  BY OneMoreIs DEF Taken, Counted
<1>3. One(Free(q)') <= One(q \in Of(sync.body))
  BY <1>1 DEF Free, One
<1>4. /\ rows[q] \in Nat /\ causes[q] \in Nat /\ Cardinality(Holders(q)) \in Nat
      /\ One(Free(q)) \in Nat /\ One(Free(q)') \in Nat /\ One(q \in Of(sync.body)) \in Nat
  BY HoldersCount DEF TypeOK, One
<1>5. Spent(q) <= causes[q]
  BY DEF CauseInv
<1> HIDE DEF One
<1> QED
  BY <1>1, <1>2, <1>3, <1>4, <1>5 DEF Spent

\* The bookkeeping of a query, apart from the sets it comes from.
LEMMA SpentIs ==
    ASSUME TypeOK, CauseInv, NEW q \in Queries
    PROVE  /\ rows[q] \in Nat /\ causes[q] \in Nat /\ Cardinality(Holders(q)) \in Nat
           /\ rows[q] + Cardinality(Holders(q)) + One(Free(q)) <= causes[q]
           /\ One(Free(q)) \in {0, 1} /\ One(Free(q)') \in {0, 1}
           /\ Free(q) <=> One(Free(q)) = 1
           /\ Free(q)' <=> One(Free(q)') = 1
<1>1. Spent(q) <= causes[q]
  BY DEF CauseInv
<1> QED
  BY <1>1, HoldersCount DEF Spent, One, TypeOK

\* A step of one request, for one query: it reads it, lets go of it, or neither.
LEMMA SpentStep ==
    ASSUME TypeOK, CauseInv, NEW q \in Queries, NEW c \in Collectors, NEW r \in Collects,
           collector' = [collector EXCEPT ![c] = r],
           NEW more \in {0, 1}, rows'[q] = rows[q] + more,
           NEW spare \in {0, 1}, causes'[q] = causes[q] + spare,
           q \in r.got /\ q \notin collector[c].got =>
               more = 0 /\ (Free(q) \/ spare = 1) /\ ~Free(q)',
           q \in collector[c].got /\ q \notin r.got =>
               more = 0 \/ (Free(q)' => Free(q) \/ spare = 1),
           (q \in collector[c].got <=> q \in r.got) =>
               more = 0 /\ (Free(q)' => Free(q) \/ spare = 1)
    PROVE  Spent(q)' <= causes'[q]
<1> DEFINE h == Cardinality(Holders(q))
<1>1. /\ rows[q] \in Nat /\ causes[q] \in Nat /\ h \in Nat
      /\ rows[q] + h + One(Free(q)) <= causes[q]
      /\ One(Free(q)) \in {0, 1} /\ One(Free(q)') \in {0, 1}
      /\ Free(q) <=> One(Free(q)) = 1
      /\ Free(q)' <=> One(Free(q)') = 1
  BY SpentIs
<1>2. c \in Holders(q) <=> q \in collector[c].got
  BY DEF Holders
<1>3. Spent(q)' = rows'[q] + Cardinality(Holders(q)') + One(Free(q)')
  BY DEF Spent
<1>4. CASE q \in r.got /\ q \notin collector[c].got
  <2>1. Holders(q)' = Holders(q) \cup {c}
    BY <1>4, HoldersAfter
  <2>2. Cardinality(Holders(q)') = h + 1
    BY <1>2, <1>4, <2>1, HoldersGain
  <2> HIDE DEF h
  <2> QED  BY <1>1, <1>3, <1>4, <2>2
<1>5. CASE q \in collector[c].got /\ q \notin r.got
  <2>1. Holders(q)' = Holders(q) \ {c}
    BY <1>5, HoldersAfter
  <2>2. Cardinality(Holders(q)') = h - 1
    BY <1>2, <1>5, <2>1, HoldersLose
  <2> HIDE DEF h
  <2> QED  BY <1>1, <1>3, <1>5, <2>2
<1>6. CASE q \in collector[c].got <=> q \in r.got
  <2>1. Holders(q)' = Holders(q)
    <3>1. Holders(q)' = IF q \in r.got THEN Holders(q) \cup {c} ELSE Holders(q) \ {c}
      BY HoldersAfter
    <3> QED  BY <1>2, <1>6, <3>1
  <2>2. Cardinality(Holders(q)') = h
    BY <2>1
  <2> HIDE DEF h
  <2> QED  BY <1>1, <1>3, <1>6, <2>2
<1> QED  BY <1>4, <1>5, <1>6

\* Whether the object's copy is free, after a step of one request.
LEMMA FreeAfter ==
    ASSUME TypeOK, NEW c \in Collectors, NEW r \in Collects,
           collector' = [collector EXCEPT ![c] = r], NEW q \in Queries
    PROVE  Free(q)' <=> /\ q \in Of(object')
                        /\ \A d \in Holders(q) \ {c} : ~Deleting(d)
                        /\ q \in r.got => r.pc # "delete"
<1>1. \A d \in Collectors : collector'[d] = IF d = c THEN r ELSE collector[d]
  BY DEF TypeOK
<1>2. Holders(q)' = IF q \in r.got THEN Holders(q) \cup {c} ELSE Holders(q) \ {c}
  BY HoldersAfter
<1>3. \A d \in Holders(q)' : Deleting(d)' <=> collector'[d].pc = "delete"
  BY DEF Deleting
<1>4. \A d \in Holders(q) : Deleting(d) <=> collector[d].pc = "delete"
  BY DEF Deleting
<1>5. Free(q)' <=> q \in Of(object') /\ \A d \in Holders(q)' : ~Deleting(d)'
  BY DEF Free
<1> QED
  BY <1>1, <1>2, <1>3, <1>4, <1>5 DEF Holders

LEMMA FreeIs ==
    ASSUME NEW c \in Collectors, NEW q \in Queries
    PROVE  Free(q) <=> /\ q \in Of(object)
                       /\ \A d \in Holders(q) \ {c} : ~Deleting(d)
                       /\ q \in collector[c].got => collector[c].pc # "delete"
BY DEF Free, Holders, Deleting

LEMMA CauseStep ==
    ASSUME TypeOK, CauseInv, [Next]_vars
    PROVE  CauseInv'
<1>1. ASSUME NEW q \in Queries, OpenLog(q) \/ WriteLine(q) \/ WriteFails(q)
      PROVE  CauseInv'
  BY <1>1, CentreIdle DEF OpenLog, WriteLine, WriteFails, OnlyServer
<1>2. CASE Rename \/ ReadBody \/ Unlink \/ AppendBack \/ ReadFails \/ UnlinkFails
            \/ RunEnds \/ UNCHANGED vars
  BY <1>2, CentreIdle DEF Rename, ReadBody, Unlink, AppendBack, ReadFails, UnlinkFails,
      RunEnds, OnlySync, vars
<1>3. CASE PutBody
  BY <1>3, CentreTakes DEF PutBody
<1>4. CASE PutFails
  <2>1. CASE Taken
    BY <1>4, <2>1, CentreTakes DEF PutFails
  <2>2. CASE UNCHANGED <<object, sent, causes>>
    BY <1>4, <2>2, CentreIdle DEF PutFails, centre
  <2> QED  BY <1>4, <2>1, <2>2 DEF PutFails
<1>5. ASSUME NEW c \in Collectors, ListObjects(c) PROVE CauseInv'
  <2> DEFINE r == [pc |-> "get", got |-> {}]
  <2>1. /\ collector' = [collector EXCEPT ![c] = r] /\ UNCHANGED <<object, rows, causes>>
        /\ collector[c].got = {} /\ r \in Collects
    BY <1>5, GoesOn DEF ListObjects, Collecting, CauseInv
  <2>2. ASSUME NEW q \in Queries PROVE Spent(q)' <= causes'[q]
    <3>1. Free(q)' => Free(q)
      BY <2>1, FreeAfter, FreeIs
    <3>2. rows[q] + 0 = rows[q] /\ causes[q] + 0 = causes[q]
      BY DEF TypeOK
    <3> QED
      BY <2>1, <3>1, <3>2, SpentStep
  <2> QED
    BY <2>1, <2>2 DEF CauseInv, TypeOK
<1>6. ASSUME NEW c \in Collectors, GetObject(c) PROVE CauseInv'
  <2>1. collector[c].pc = "get" /\ collector[c].got = {} /\ UNCHANGED <<object, rows>>
    BY <1>6 DEF GetObject, Collecting, CauseInv
  <2>2. CASE object = <<>>
    <3>1. collector' = [collector EXCEPT ![c] = Idle] /\ UNCHANGED causes /\ Idle.got = {}
          /\ Idle \in Collects
      BY <1>6, <2>2 DEF GetObject, Idle, Collects
    <3>2. ASSUME NEW q \in Queries PROVE Spent(q)' <= causes'[q]
      <4>1. Free(q)' => Free(q)
        BY <2>1, <3>1, FreeAfter, FreeIs
      <4>2. rows[q] + 0 = rows[q] /\ causes[q] + 0 = causes[q]
        BY DEF TypeOK
      <4> QED
        BY <2>1, <3>1, <4>1, <4>2, SpentStep
    <3> QED
      BY <3>1, <3>2 DEF CauseInv, TypeOK
  <2>3. CASE object # <<>>
    <3> DEFINE r == [pc |-> "delete", got |-> Parsed(object)]
    <3>1. collector' = [collector EXCEPT ![c] = r] /\ Counted(Shared(c, Parsed(object)))
      BY <1>6, <2>3 DEF GetObject
    <3>2. r \in Collects /\ Parsed(object) \subseteq Of(object)
      BY ParsedOf DEF Collects, TypeOK
    <3>3. ASSUME NEW q \in Queries PROVE Spent(q)' <= causes'[q]
      <4> DEFINE spare == One(q \in Shared(c, Parsed(object)))
      <4>1. causes'[q] = causes[q] + spare /\ spare \in {0, 1}
        BY <3>1, OneMoreIs DEF Counted, One
      <4>2. q \in r.got => ~Free(q)' /\ (Free(q) \/ spare = 1)
        BY <2>1, <3>1, <3>2, FreeAfter, FreeIs DEF Shared, Holders, One
      <4>3. q \notin r.got => (Free(q)' => Free(q))
        BY <2>1, <3>1, <3>2, FreeAfter, FreeIs
      <4>4. rows'[q] = rows[q] + 0
        BY <2>1 DEF TypeOK
      <4> HIDE DEF spare, r
      <4> QED
        BY <2>1, <3>1, <3>2, <4>1, <4>2, <4>3, <4>4, SpentStep
    <3> QED
      BY <3>1, <3>3 DEF CauseInv, TypeOK
  <2> QED  BY <2>2, <2>3
<1>7. ASSUME NEW c \in Collectors, GetFails(c) PROVE CauseInv'
  <2> DEFINE r == [pc |-> "delete", got |-> {}]
  <2>1. /\ collector' = [collector EXCEPT ![c] = r] /\ UNCHANGED <<object, rows, causes>>
        /\ collector[c].got = {} /\ r \in Collects
    BY <1>7, GoesOn DEF GetFails, Collecting, CauseInv
  <2>2. ASSUME NEW q \in Queries PROVE Spent(q)' <= causes'[q]
    <3>1. Free(q)' => Free(q)
      BY <2>1, FreeAfter, FreeIs
    <3>2. rows[q] + 0 = rows[q] /\ causes[q] + 0 = causes[q]
      BY DEF TypeOK
    <3> QED
      BY <2>1, <3>1, <3>2, SpentStep
  <2> QED
    BY <2>1, <2>2 DEF CauseInv, TypeOK
<1>8. ASSUME NEW c \in Collectors, DeleteObject(c) PROVE CauseInv'
  <2> DEFINE r == [pc |-> "save", got |-> collector[c].got]
  <2>1. /\ collector' = [collector EXCEPT ![c] = r] /\ UNCHANGED <<rows, causes>>
        /\ object' = <<>> /\ r \in Collects
    BY <1>8, GoesOn DEF DeleteObject
  <2>2. ASSUME NEW q \in Queries PROVE Spent(q)' <= causes'[q]
    <3>1. ~Free(q)'
      BY <2>1, EmptyOf, FreeAfter
    <3>2. rows[q] + 0 = rows[q] /\ causes[q] + 0 = causes[q]
      BY DEF TypeOK
    <3> QED
      BY <2>1, <3>1, <3>2, SpentStep
  <2> QED
    BY <2>1, <2>2 DEF CauseInv, TypeOK
<1>9. ASSUME NEW c \in Collectors, DeleteFails(c) PROVE CauseInv'
  <2> DEFINE r == [pc |-> "save", got |-> collector[c].got]
             qs == collector[c].got \cap Of(object)
  <2>1. /\ collector' = [collector EXCEPT ![c] = r] /\ UNCHANGED <<object, rows>>
        /\ Counted(qs) /\ r \in Collects
    BY <1>9, GoesOn DEF DeleteFails
  <2>2. ASSUME NEW q \in Queries PROVE Spent(q)' <= causes'[q]
    <3> DEFINE spare == One(q \in qs)
    <3>1. causes'[q] = causes[q] + spare /\ spare \in {0, 1}
      BY <2>1, OneMoreIs DEF Counted, One
    <3>2. Free(q)' => Free(q) \/ spare = 1
      BY <2>1, FreeAfter, FreeIs DEF One
    <3>3. rows'[q] = rows[q] + 0
      BY <2>1 DEF TypeOK
    <3> HIDE DEF spare
    <3> QED
      BY <2>1, <3>1, <3>2, <3>3, SpentStep
  <2> QED
    BY <2>1, <2>2 DEF CauseInv, TypeOK
<1>10. ASSUME NEW c \in Collectors, SaveRows(c) PROVE CauseInv'
  <2>1. /\ collector' = [collector EXCEPT ![c] = Idle] /\ UNCHANGED <<object, causes>>
        /\ Saved(collector[c].got) /\ collector[c].pc = "save"
        /\ Idle \in Collects /\ Idle.got = {}
    BY <1>10 DEF SaveRows, Collecting, Idle, Collects
  <2>2. ASSUME NEW q \in Queries PROVE Spent(q)' <= causes'[q]
    <3> DEFINE more == One(q \in collector[c].got)
    <3>1. rows'[q] = rows[q] + more /\ more \in {0, 1}
          /\ (q \notin collector[c].got => more = 0)
      BY <2>1, OneMoreIs DEF Saved, One
    <3>2. Free(q)' => Free(q)
      BY <2>1, FreeAfter, FreeIs
    <3>3. causes'[q] = causes[q] + 0
      BY <2>1 DEF TypeOK
    <3> HIDE DEF more
    <3> QED
      BY <2>1, <3>1, <3>2, <3>3, SpentStep
  <2> QED
    BY <2>1, <2>2 DEF CauseInv, TypeOK
<1>11. ASSUME NEW c \in Collectors, CollectEnds(c) PROVE CauseInv'
  <2>1. PICK part \in SUBSET collector[c].got :
            (collector[c].pc = "save" \/ part = {}) /\ Saved(part)
    BY <1>11 DEF CollectEnds, Collecting
  <2>2. /\ collector' = [collector EXCEPT ![c] = Idle] /\ UNCHANGED causes
        /\ object' = object \/ object' = <<>>
        /\ Idle \in Collects /\ Idle.got = {}
    BY <1>11 DEF CollectEnds, Idle, Collects
  <2>3. ASSUME NEW q \in Queries PROVE Spent(q)' <= causes'[q]
    <3> DEFINE more == One(q \in part)
    <3>1. rows'[q] = rows[q] + more /\ more \in {0, 1} /\ (q \notin part => more = 0)
      BY <2>1, OneMoreIs DEF Saved, One
    <3>2. q \in Of(object') => q \in Of(object)
      BY <2>2, EmptyOf
    <3>3. more = 0 \/ (Free(q)' => Free(q))
      BY <2>1, <2>2, <3>1, <3>2, FreeAfter, FreeIs
    <3>4. q \notin collector[c].got => more = 0 /\ (Free(q)' => Free(q))
      BY <2>2, <3>1, <3>2, FreeAfter, FreeIs
    <3>5. causes'[q] = causes[q] + 0
      BY <2>2 DEF TypeOK
    <3> HIDE DEF more
    <3> QED
      BY <2>2, <3>1, <3>3, <3>4, <3>5, SpentStep
  <2> QED
    BY <2>2, <2>3 DEF CauseInv, TypeOK
<1> QED
  BY <1>1, <1>2, <1>3, <1>4, <1>5, <1>6, <1>7, <1>8, <1>9, <1>10, <1>11 DEF Next

---------------------------------------------------------------------------
(* The theorems                                                            *)

LogsInv == TypeOK /\ KeptInv /\ CauseInv

LEMMA LogsInit == Init => LogsInv
<1> SUFFICES ASSUME Init PROVE LogsInv
  OBVIOUS
<1>1. TypeOK
  BY EmptyOf, LogsAssumption
     DEF Init, TypeOK, Open, NoUpload, Uploads, Stages, Idle, Collects
<1>2. KeptInv
  BY EmptyOf DEF Init, KeptInv, KeptOrSent, At
<1>3. CauseInv
  <2> SUFFICES ASSUME NEW q \in Queries
               PROVE  Spent(q) <= causes[q]
    BY DEF Init, CauseInv, Idle
  <2>1. Holders(q) = {} /\ ~Free(q) /\ rows[q] = 0 /\ causes[q] = 0
    BY EmptyOf DEF Init, Holders, Idle, Free
  <2> QED
    BY <2>1, FS_EmptySet DEF Spent, One
<1> QED  BY <1>1, <1>2, <1>3 DEF LogsInv

LEMMA LogsStep ==
    ASSUME LogsInv, [Next]_vars
    PROVE  LogsInv'
BY TypeStep, KeptStep, CauseStep DEF LogsInv

\* Every reachable state of the log's way is type correct, for any queries,
\* collect requests and number of faults.
THEOREM TypeCorrect == Spec => []TypeOK
<1>1. LogsInv => TypeOK
  BY DEF LogsInv
<1> QED
  BY LogsInit, LogsStep, <1>1, PTL DEF Spec

\* No written line leaves the store unsent unless it came late, however many
\* threads write and whatever fails.
THEOREM LinesKept == Spec => []KeptOrSent
<1>1. LogsInv => KeptOrSent
  BY DEF LogsInv, KeptInv
<1> QED
  BY LogsInit, LogsStep, <1>1, PTL DEF Spec

\* A query has no more rows at the centre than bodies that S3 took with it, reads
\* shared with an earlier reader, and deletes that failed, for any number of them.
THEOREM RowsCaused == Spec => []EveryRowHasItsCause
<1>1. LogsInv => EveryRowHasItsCause
  <2> SUFFICES ASSUME LogsInv, NEW q \in Queries
               PROVE  rows[q] <= causes[q]
    BY DEF EveryRowHasItsCause
  <2>1. /\ rows[q] \in Nat /\ causes[q] \in Nat /\ Cardinality(Holders(q)) \in Nat
        /\ rows[q] + Cardinality(Holders(q)) + One(Free(q)) <= causes[q]
        /\ One(Free(q)) \in {0, 1}
    BY SpentIs DEF LogsInv
  <2> QED  BY <2>1
<1> QED
  BY LogsInit, LogsStep, <1>1, PTL DEF Spec
=============================================================================
