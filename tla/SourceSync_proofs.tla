--------------------------- MODULE SourceSync_proofs ---------------------------
(***************************************************************************)
(* Proofs of the safety properties of SourceSync, and of the OCR instance   *)
(* inside it, for every set of sources and tasks and all bounds.  The steps  *)
(* of the instance's users touch nothing else, so OcrInv is inductive alone; *)
(* SyncInv says what each stage of a task knows of its row, its record and   *)
(* the revisions handed on.                                                  *)
(***************************************************************************)
EXTENDS SourceSync, TLAPS

USE OcrAssumption, SyncAssumption

-----------------------------------------------------------------------------
(* The OCR instance                                                        *)

Up == inst \in {"pending", "running"}

\* A user whose way ends in a stop of the instance, or in giving up on it.
Responsible(user) ==
    \/ user.pc = "poll"
    \/ user.pc = "health" /\ user.own /\ user.found # None
    \/ user.pc \in {"publish", "work", "stop"} /\ user.found # None

Blamed(user) == user.left \/ user.pc = "dead"

UserOK(user) ==
    /\ user.pc = "off" => ~user.left
    /\ user.pc \in {"wait", "boot", "poll"} => user.own
    /\ user.pc \in {"off", "look", "wait", "boot", "poll"} => user.found = None
    /\ user.told => user.pc \in {"work", "stop", "done", "dead"}

\* What a user that is at work alone knows of the instance and of Redis.
Served(user) ==
    /\ (user.pc # "stop" /\ user.found \notin {None, Fixed}) =>
           inst = "running" /\ user.found = boots
    /\ user.told => url = user.found

AloneOK(u) ==
    AtWork(u) /\ users[u].alone =>
        /\ \A v \in Users : v # u => ~AtWork(v)
        /\ Served(users[u])

Bounds ==
    /\ inst = "pending" => boots < MaxBoots
    /\ inst = "running" => boots # 0

OcrInv ==
    /\ OcrTypeOK
    /\ Bounds
    /\ \A u \in Users : UserOK(users[u]) /\ AloneOK(u)
    /\ Up => \E u \in Users : Blamed(users[u]) \/ Responsible(users[u])

\* The steps of the instance inside those of the syncs.
Crash ==
    /\ users' = [u \in Users |-> IF AtWork(u) THEN [users[u] EXCEPT !.pc = "dead"]
                                 ELSE users[u]]
    /\ UNCHANGED <<inst, boots, url>>

OcrMove ==
    \/ \E u \in Users : Enter(u) \/ Leave(u) \/ OcrStep(u) \/ OcrFault(u)
    \/ Started \/ Stopped \/ Crash
    \/ UNCHANGED ocrVars

LEMMA NewUserOK ==
    /\ NewUser \in UserType /\ NewUser.pc = "off" /\ ~NewUser.left /\ ~NewUser.told
    /\ NewUser.found = None
  BY DEF NewUser, UserType, UserSteps, Addresses, Fixed, None

\* A user at work goes on as d: nobody who is at work alone is beside it.
LEMMA UserMoves ==
    ASSUME OcrInv, NEW u \in Users, NEW d \in UserType, AtWork(u), Become(u, d),
           inst' \in {"stopped", "pending", "running", "stopping"},
           boots' = boots, url' \in Addresses, Bounds',
           d.pc # "off", d.alone = users[u].alone, UserOK(d),
           users[u].alone /\ d.pc \notin {"done", "dead"} =>
               /\ (d.pc # "stop" /\ d.found \notin {None, Fixed}) =>
                      inst' = "running" /\ d.found = boots
               /\ d.told => url' = d.found,
           Up' => Up \/ Blamed(d) \/ Responsible(d),
           Up' /\ (Blamed(users[u]) \/ Responsible(users[u])) => Blamed(d) \/ Responsible(d)
    PROVE  OcrInv'
<1>1. users \in [Users -> UserType] /\ boots \in 0 .. MaxBoots
  BY DEF OcrInv, OcrTypeOK
<1>2. users'[u] = d /\ \A v \in Users : v # u => users'[v] = users[v]
  BY <1>1 DEF Become
<1>3. OcrTypeOK'
  BY <1>1 DEF OcrTypeOK, Become
<1>4. \A v \in Users : UserOK(users'[v])
  BY <1>2 DEF OcrInv
<1>5. ASSUME NEW v \in Users PROVE AloneOK(v)'
  <2>1. CASE v = u
    BY <2>1, <1>2 DEF AloneOK, AtWork, Served, OcrInv
  <2>2. CASE v # u
    BY <2>2, <1>2 DEF AloneOK, AtWork, OcrInv
  <2> QED
    BY <2>1, <2>2
<1>6. Up' => \E v \in Users : Blamed(users'[v]) \/ Responsible(users'[v])
  BY <1>2 DEF OcrInv
<1> QED
  BY <1>3, <1>4, <1>5, <1>6 DEF OcrInv, UserOK, Blamed, Responsible

LEMMA EnterStep ==
    ASSUME OcrInv, NEW u \in Users, Enter(u)
    PROVE  OcrInv'
<1> DEFINE free == {v \in Users : AtWork(v)} = {}
           new == [NewUser EXCEPT !.pc = "look", !.alone = free]
<1>1. users \in [Users -> UserType] /\ users[u].pc = "off"
  BY DEF Enter, OcrInv, OcrTypeOK
<1>2. /\ new \in UserType /\ new.pc = "look" /\ ~new.left /\ ~new.told /\ new.found = None
      /\ new.alone => \A v \in Users : ~AtWork(v)
  <2>1. free \in BOOLEAN /\ (free => \A v \in Users : ~AtWork(v))
    OBVIOUS
  <2> HIDE DEF free
  <2> QED
    BY <2>1, NewUserOK DEF UserType, UserSteps
<1>3. users'[u] = new
  BY DEF Enter
<1>4. ASSUME NEW v \in Users, v # u
      PROVE  IF AtWork(v) THEN users'[v] = [users[v] EXCEPT !.alone = FALSE]
             ELSE users'[v] = users[v]
  BY <1>4 DEF Enter
<1> HIDE DEF new
<1>5. ASSUME NEW v \in Users, v # u
      PROVE  /\ users'[v] \in UserType
             /\ users'[v].pc = users[v].pc /\ users'[v].own = users[v].own
             /\ users'[v].found = users[v].found /\ users'[v].told = users[v].told
             /\ users'[v].left = users[v].left
             /\ AtWork(v) => ~users'[v].alone
  BY <1>1, <1>4, <1>5 DEF UserType
<1>6. OcrTypeOK'
  <2>1. users' \in [Users -> UserType]
    BY <1>2, <1>3, <1>5 DEF Enter
  <2> QED
    BY <2>1 DEF Enter, OcrInv, OcrTypeOK
<1>7. ASSUME NEW v \in Users PROVE UserOK(users'[v])
  BY <1>2, <1>3, <1>5 DEF OcrInv, UserOK
<1>8. ASSUME NEW v \in Users PROVE AloneOK(v)'
  <2>1. CASE v = u
    BY <2>1, <1>2, <1>3, <1>5 DEF AloneOK, AtWork, Served
  <2>2. CASE v # u
    BY <2>2, <1>5 DEF AloneOK, AtWork
  <2> QED
    BY <2>1, <2>2
<1>9. Up' => \E v \in Users : Blamed(users'[v]) \/ Responsible(users'[v])
  <2> SUFFICES ASSUME Up' PROVE \E v \in Users : Blamed(users'[v]) \/ Responsible(users'[v])
    OBVIOUS
  <2>1. PICK v \in Users : Blamed(users[v]) \/ Responsible(users[v])
    BY DEF Enter, Up, OcrInv
  <2>2. v # u
    BY <1>1, <2>1 DEF OcrInv, UserOK, Blamed, Responsible
  <2> QED
    BY <1>5, <2>1, <2>2 DEF Blamed, Responsible
<1> QED
  BY <1>6, <1>7, <1>8, <1>9 DEF Enter, OcrInv, Bounds, UserOK, Blamed, Responsible

LEMMA CrashStep == ASSUME OcrInv, Crash PROVE OcrInv'
<1>1. users \in [Users -> UserType]
  BY DEF OcrInv, OcrTypeOK
<1>2. ASSUME NEW u \in Users
      PROVE  /\ users'[u] \in UserType
             /\ ~AtWork(u) => users'[u] = users[u]
             /\ AtWork(u) => users'[u].pc = "dead"
  BY <1>1 DEF Crash, UserType, UserSteps
<1>3. OcrTypeOK'
  <2>1. users' \in [Users -> UserType]
    BY <1>2 DEF Crash
  <2> QED
    BY <2>1 DEF Crash, OcrInv, OcrTypeOK
<1>4. ASSUME NEW u \in Users PROVE UserOK(users'[u]) /\ AloneOK(u)'
  BY <1>2 DEF OcrInv, UserOK, AloneOK, AtWork
<1>5. Up' => \E u \in Users : Blamed(users'[u]) \/ Responsible(users'[u])
  <2> SUFFICES ASSUME Up' PROVE \E u \in Users : Blamed(users'[u])
    OBVIOUS
  <2>1. PICK u \in Users : Blamed(users[u]) \/ Responsible(users[u])
    BY DEF Crash, Up, OcrInv
  <2>2. Blamed(users'[u])
    BY <1>2, <2>1 DEF Blamed, Responsible, AtWork
  <2> QED
    BY <2>2
<1> QED
  BY <1>3, <1>4, <1>5 DEF Crash, OcrInv, Bounds, UserOK, Blamed, Responsible

LEMMA Ec2Step == ASSUME OcrInv, Started \/ Stopped PROVE OcrInv'
<1>1. OcrTypeOK' /\ Bounds'
  BY DEF Started, Stopped, OcrInv, OcrTypeOK, Bounds
<1>2. ASSUME NEW u \in Users PROVE AloneOK(u)'
  BY DEF Started, Stopped, OcrInv, AloneOK, AtWork, Served
<1>3. UNCHANGED users /\ (Up' => Up)
  BY DEF Started, Stopped, Up
<1> QED
  BY <1>1, <1>2, <1>3 DEF OcrInv, UserOK, Blamed, Responsible

\* The steps of one user.
LEMMA UserStep ==
    ASSUME OcrInv, NEW u \in Users, Leave(u) \/ OcrStep(u) \/ OcrFault(u)
    PROVE  OcrInv'
<1> DEFINE user == users[u]
<1>t. /\ user \in UserType /\ boots \in 0 .. MaxBoots /\ url \in Addresses
      /\ inst \in {"stopped", "pending", "running", "stopping"}
      /\ user.found \in Addresses /\ user.own \in BOOLEAN /\ user.told \in BOOLEAN
      /\ user.left \in BOOLEAN /\ user.alone \in BOOLEAN
  BY DEF OcrInv, OcrTypeOK, UserType
<1>o. UserOK(user) /\ Bounds
  BY DEF OcrInv
<1>s. AtWork(u) /\ user.alone => Served(user)
  BY DEF OcrInv, AloneOK
<1>a. /\ boots \in Addresses /\ boots # Fixed /\ Fixed \in Addresses /\ Fixed # None
      /\ None \in Addresses /\ boots \in Int
  BY <1>t DEF Addresses, Fixed, None
<1>1. ASSUME Look(u) PROVE OcrInv'
  <2> DEFINE d == IF inst = "running" THEN [user EXCEPT !.pc = "health", !.found = boots]
                  ELSE IF inst = "stopped" THEN [user EXCEPT !.pc = "boot", !.own = TRUE]
                  ELSE IF inst = "stopping" THEN [user EXCEPT !.pc = "wait", !.own = TRUE]
                  ELSE FallenBack(user)
  <2>1. Become(u, d) /\ AtWork(u)
    BY <1>1 DEF Look, FallenBack, AtWork
  <2>2. d \in UserType /\ d.alone = user.alone /\ d.told = user.told /\ d.left = user.left
        /\ \/ inst = "running" /\ d.pc = "health" /\ d.found = boots /\ d.own = user.own
           \/ d.pc \in {"boot", "wait"} /\ d.own /\ d.found = user.found /\ ~Up
           \/ d.pc = "publish" /\ d.found = Fixed /\ d.own = user.own
           \/ d.pc = "work" /\ d.found = user.found /\ d.own = user.own
    BY <1>1, <1>t, <1>a DEF Look, FallenBack, Up, UserType, UserSteps
  <2>3. UNCHANGED <<inst, boots, url>>
    BY <1>1, <1>t, <1>a DEF Look
  <2> HIDE DEF d
  <2> QED
    BY <2>1, <2>2, <2>3, <1>1, <1>t, <1>o, <1>s, <1>a, UserMoves
    DEF Look, UserOK, Served, Bounds, Up, Blamed, Responsible
<1>2. ASSUME LookFails(u) PROVE OcrInv'
  <2> DEFINE d == FallenBack(user)
  <2>1. Become(u, d) /\ AtWork(u)
    BY <1>2 DEF LookFails, FallenBack, AtWork
  <2>2. /\ d \in UserType /\ d.alone = user.alone /\ d.told = user.told /\ d.left = user.left
        /\ d.own = user.own
        /\ \/ d.pc = "publish" /\ d.found = Fixed
           \/ d.pc = "work" /\ d.found = user.found
    BY <1>2, <1>t, <1>a DEF LookFails, FallenBack, UserType, UserSteps
  <2>3. UNCHANGED <<inst, boots, url>>
    BY <1>2, <1>t, <1>a DEF LookFails
  <2> HIDE DEF d
  <2> QED
    BY <2>1, <2>2, <2>3, <1>2, <1>t, <1>o, <1>s, <1>a, UserMoves
    DEF LookFails, UserOK, Served, Bounds, Up, Blamed, Responsible
<1>3. ASSUME Wait(u) PROVE OcrInv'
  <2> DEFINE d == [user EXCEPT !.pc = "boot"]
  <2>1. Become(u, d) /\ AtWork(u)
    BY <1>3 DEF Wait, FallenBack, AtWork
  <2>2. /\ d \in UserType /\ d.alone = user.alone /\ d.own = user.own /\ d.found = user.found
        /\ d.told = user.told /\ d.left = user.left /\ d.pc = "boot"
    BY <1>3, <1>t, <1>a DEF Wait, FallenBack, UserType, UserSteps
  <2>3. UNCHANGED <<inst, boots, url>>
    BY <1>3, <1>t, <1>a DEF Wait
  <2> HIDE DEF d
  <2> QED
    BY <2>1, <2>2, <2>3, <1>3, <1>t, <1>o, <1>s, <1>a, UserMoves
    DEF Wait, UserOK, Served, Bounds, Up, Blamed, Responsible
<1>4. ASSUME Boot(u) PROVE OcrInv'
  <2> DEFINE d == [user EXCEPT !.pc = "poll"]
             e == [user EXCEPT !.pc = "work"]
  <2>1. AtWork(u) /\ user.pc = "boot" /\ UNCHANGED <<boots, url>>
    BY <1>4 DEF Boot, AtWork
  <2>2. /\ d \in UserType /\ d.pc = "poll" /\ d.alone = user.alone /\ d.own = user.own
        /\ d.found = user.found /\ d.told = user.told /\ d.left = user.left
        /\ e \in UserType /\ e.pc = "work" /\ e.alone = user.alone /\ e.own = user.own
        /\ e.found = user.found /\ e.told = user.told /\ e.left = user.left
    BY <1>t DEF UserType, UserSteps
  <2>3. \/ Become(u, d) /\ (inst' = inst \/ (inst' = "pending" /\ boots < MaxBoots))
        \/ Become(u, e) /\ inst' = inst
    BY <1>4 DEF Boot
  <2> HIDE DEF d, e
  <2>4. user.found = None /\ user.own /\ ~user.told
    BY <1>o, <2>1 DEF UserOK
  <2>5. CASE Become(u, d) /\ (inst' = inst \/ (inst' = "pending" /\ boots < MaxBoots))
    BY <1>t, <1>o, <1>a, <2>1, <2>2, <2>4, <2>5, UserMoves
    DEF UserOK, Bounds, Up, Blamed, Responsible
  <2>6. CASE Become(u, e) /\ inst' = inst
    BY <1>t, <1>o, <1>a, <2>1, <2>2, <2>4, <2>6, UserMoves
    DEF UserOK, Bounds, Up, Blamed, Responsible
  <2> QED
    BY <2>3, <2>5, <2>6
<1>5. ASSUME BootFails(u) PROVE OcrInv'
  <2> DEFINE d == [user EXCEPT !.pc = "work"]
             e == [user EXCEPT !.pc = "work", !.left = TRUE]
  <2>1. AtWork(u) /\ user.pc = "boot" /\ UNCHANGED <<boots, url>>
    BY <1>5 DEF BootFails, AtWork
  <2>2. /\ d \in UserType /\ d.pc = "work" /\ d.alone = user.alone /\ d.own = user.own
        /\ d.found = user.found /\ d.told = user.told /\ d.left = user.left
        /\ e \in UserType /\ e.pc = "work" /\ e.alone = user.alone /\ e.own = user.own
        /\ e.found = user.found /\ e.told = user.told /\ e.left
    BY <1>t DEF UserType, UserSteps
  <2>3. \/ Become(u, d) /\ inst' = inst
        \/ Become(u, e) /\ inst' = "pending" /\ boots < MaxBoots
    BY <1>5 DEF BootFails
  <2> HIDE DEF d, e
  <2>4. user.found = None /\ user.own /\ ~user.told
    BY <1>o, <2>1 DEF UserOK
  <2>5. CASE Become(u, d) /\ inst' = inst
    BY <1>t, <1>o, <1>a, <2>1, <2>2, <2>4, <2>5, UserMoves
    DEF UserOK, Bounds, Up, Blamed, Responsible
  <2>6. CASE Become(u, e) /\ inst' = "pending" /\ boots < MaxBoots
    BY <1>t, <1>o, <1>a, <2>1, <2>2, <2>4, <2>6, UserMoves
    DEF UserOK, Bounds, Up, Blamed, Responsible
  <2> QED
    BY <2>3, <2>5, <2>6
<1>6. ASSUME Poll(u) PROVE OcrInv'
  <2> DEFINE d == [user EXCEPT !.pc = "health", !.found = boots]
  <2>1. Become(u, d) /\ AtWork(u)
    BY <1>6 DEF Poll, FallenBack, AtWork
  <2>2. /\ d \in UserType /\ d.alone = user.alone /\ d.own = user.own /\ d.told = user.told
        /\ d.left = user.left /\ d.pc = "health" /\ d.found = boots
    BY <1>6, <1>t, <1>a DEF Poll, FallenBack, UserType, UserSteps
  <2>3. UNCHANGED <<inst, boots, url>>
    BY <1>6, <1>t, <1>a DEF Poll
  <2> HIDE DEF d
  <2> QED
    BY <2>1, <2>2, <2>3, <1>6, <1>t, <1>o, <1>s, <1>a, UserMoves
    DEF Poll, UserOK, Served, Bounds, Up, Blamed, Responsible, None
<1>7. ASSUME Health(u) PROVE OcrInv'
  <2> DEFINE d == [user EXCEPT !.pc = "publish"]
  <2>1. Become(u, d) /\ AtWork(u)
    BY <1>7 DEF Health, FallenBack, AtWork
  <2>2. /\ d \in UserType /\ d.alone = user.alone /\ d.own = user.own /\ d.found = user.found
        /\ d.told = user.told /\ d.left = user.left /\ d.pc = "publish"
    BY <1>7, <1>t, <1>a DEF Health, FallenBack, UserType, UserSteps
  <2>3. UNCHANGED <<inst, boots, url>>
    BY <1>7, <1>t, <1>a DEF Health
  <2> HIDE DEF d
  <2> QED
    BY <2>1, <2>2, <2>3, <1>7, <1>t, <1>o, <1>s, <1>a, UserMoves
    DEF Health, UserOK, Served, Bounds, Up, Blamed, Responsible, Live
<1>8. ASSUME GiveUp(u) PROVE OcrInv'
  <2> DEFINE gone == [user EXCEPT !.found = None]
             d == IF gone.own THEN [gone EXCEPT !.pc = "work", !.left = TRUE]
                  ELSE FallenBack(gone)
  <2>1. Become(u, d) /\ AtWork(u) /\ user.pc \in {"poll", "health"}
        /\ UNCHANGED <<inst, boots, url>>
    BY <1>8 DEF GiveUp, AtWork
  <2>2. /\ d \in UserType /\ d.alone = user.alone /\ d.told = user.told /\ d.own = user.own
        /\ \/ user.own /\ d.left /\ d.pc = "work" /\ d.found = None
           \/ ~user.own /\ d.left = user.left /\ d.pc = "publish" /\ d.found = Fixed
           \/ ~user.own /\ d.left = user.left /\ d.pc = "work" /\ d.found = None
    BY <1>t, <1>a DEF FallenBack, UserType, UserSteps
  <2> HIDE DEF d
  <2> QED
    BY <2>1, <2>2, <1>t, <1>o, <1>s, <1>a, UserMoves
    DEF UserOK, Served, Bounds, Up, Blamed, Responsible
<1>9. ASSUME Publish(u) PROVE OcrInv'
  <2> DEFINE d == [user EXCEPT !.pc = "work", !.told = TRUE]
  <2>1. Become(u, d) /\ AtWork(u)
    BY <1>9 DEF Publish, FallenBack, AtWork
  <2>2. /\ d \in UserType /\ d.alone = user.alone /\ d.own = user.own /\ d.found = user.found
        /\ d.left = user.left /\ d.told /\ d.pc = "work"
    BY <1>9, <1>t, <1>a DEF Publish, FallenBack, UserType, UserSteps
  <2>3. url' = user.found /\ UNCHANGED <<inst, boots>>
    BY <1>9, <1>t, <1>a DEF Publish
  <2> HIDE DEF d
  <2> QED
    BY <2>1, <2>2, <2>3, <1>9, <1>t, <1>o, <1>s, <1>a, UserMoves
    DEF Publish, UserOK, Served, Bounds, Up, Blamed, Responsible
<1>10. ASSUME PublishFails(u) PROVE OcrInv'
  <2> DEFINE d == [user EXCEPT !.pc = "work"]
  <2>1. Become(u, d) /\ AtWork(u)
    BY <1>10 DEF PublishFails, FallenBack, AtWork
  <2>2. /\ d \in UserType /\ d.alone = user.alone /\ d.own = user.own /\ d.found = user.found
        /\ d.told = user.told /\ d.left = user.left /\ d.pc = "work"
    BY <1>10, <1>t, <1>a DEF PublishFails, FallenBack, UserType, UserSteps
  <2>3. UNCHANGED <<inst, boots, url>>
    BY <1>10, <1>t, <1>a DEF PublishFails
  <2> HIDE DEF d
  <2> QED
    BY <2>1, <2>2, <2>3, <1>10, <1>t, <1>o, <1>s, <1>a, UserMoves
    DEF PublishFails, UserOK, Served, Bounds, Up, Blamed, Responsible
<1>11. ASSUME Leave(u) PROVE OcrInv'
  <2> DEFINE d == [user EXCEPT !.pc = IF user.found = None THEN "done" ELSE "stop"]
  <2>1. Become(u, d) /\ AtWork(u)
    BY <1>11 DEF Leave, FallenBack, AtWork
  <2>2. /\ d \in UserType /\ d.alone = user.alone /\ d.own = user.own /\ d.found = user.found
        /\ d.told = user.told /\ d.left = user.left
        /\ d.pc = (IF user.found = None THEN "done" ELSE "stop")
    BY <1>11, <1>t, <1>a DEF Leave, FallenBack, UserType, UserSteps
  <2>3. UNCHANGED <<inst, boots, url>>
    BY <1>11, <1>t, <1>a DEF Leave
  <2> HIDE DEF d
  <2> QED
    BY <2>1, <2>2, <2>3, <1>11, <1>t, <1>o, <1>s, <1>a, UserMoves
    DEF Leave, UserOK, Served, Bounds, Up, Blamed, Responsible
<1>12. ASSUME Stop(u) PROVE OcrInv'
  <2> DEFINE up == inst = "pending"
             d == [user EXCEPT !.pc = "done", !.left = up]
  <2>1. /\ Become(u, d) /\ AtWork(u) /\ user.pc = "stop" /\ UNCHANGED <<boots, url>>
        /\ inst' = IF inst = "running" THEN "stopping" ELSE inst
    BY <1>12 DEF Stop, AtWork
  <2>2. up \in BOOLEAN /\ (inst = "pending" => up)
    OBVIOUS
  <2> HIDE DEF up
  <2>3. /\ d \in UserType /\ d.alone = user.alone /\ d.own = user.own /\ d.pc = "done"
        /\ d.found = user.found /\ d.told = user.told /\ (inst = "pending" => d.left)
    BY <1>t, <2>2 DEF UserType, UserSteps
  <2> HIDE DEF d
  <2> QED
    BY <2>1, <2>3, <1>t, <1>o, <1>s, <1>a, UserMoves
    DEF UserOK, Served, Bounds, Up, Blamed, Responsible
<1>13. ASSUME StopFails(u) PROVE OcrInv'
  <2> DEFINE d == [user EXCEPT !.pc = "done", !.left = TRUE]
  <2>1. Become(u, d) /\ AtWork(u)
    BY <1>13 DEF StopFails, FallenBack, AtWork
  <2>2. /\ d \in UserType /\ d.alone = user.alone /\ d.own = user.own /\ d.found = user.found
        /\ d.told = user.told /\ d.left /\ d.pc = "done"
    BY <1>13, <1>t, <1>a DEF StopFails, FallenBack, UserType, UserSteps
  <2>3. UNCHANGED <<inst, boots, url>>
    BY <1>13, <1>t, <1>a DEF StopFails
  <2> HIDE DEF d
  <2> QED
    BY <2>1, <2>2, <2>3, <1>13, <1>t, <1>o, <1>s, <1>a, UserMoves
    DEF StopFails, UserOK, Served, Bounds, Up, Blamed, Responsible
<1> QED
  BY <1>1, <1>2, <1>3, <1>4, <1>5, <1>6, <1>7, <1>8, <1>9, <1>10, <1>11, <1>12, <1>13
  DEF OcrStep, OcrFault

LEMMA OcrInvStep == OcrInv /\ OcrMove => OcrInv'
<1>1. ASSUME OcrInv, UNCHANGED ocrVars PROVE OcrInv'
  BY <1>1 DEF ocrVars, OcrInv, OcrTypeOK, Bounds, UserOK, AloneOK, AtWork, Served, Up, Blamed,
              Responsible
<1> QED
  BY <1>1, EnterStep, UserStep, Ec2Step, CrashStep DEF OcrMove

LEMMA InitOcrInv == OcrInit => OcrInv
<1> SUFFICES ASSUME OcrInit PROVE OcrInv
  OBVIOUS
<1>1. OcrTypeOK
  BY NewUserOK DEF OcrInit, OcrTypeOK, Addresses, Fixed, None
<1>2. \A u \in Users : UserOK(users[u]) /\ AloneOK(u)
  BY NewUserOK DEF OcrInit, UserOK, AloneOK, AtWork
<1> QED
  BY <1>1, <1>2 DEF OcrInit, OcrInv, Bounds, Up

LEMMA NextIsOcrMove == [Next]_vars => OcrMove
<1> SUFFICES ASSUME [Next]_vars PROVE OcrMove
  OBVIOUS
<1>1. ASSUME NEW t \in Tasks,
             \/ \E s \in Sources, admin \in BOOLEAN : Trigger(t, s, admin)
             \/ Mark(t) \/ Begin(t) \/ OcrReady(t) \/ Fetch(t) \/ Ingest(t) \/ Close(t)
             \/ Record(t) \/ Report(t) \/ ReportRecord(t)
             \/ Caught(t) \/ WriteSkipped(t) \/ Uncaught(t)
      PROVE  OcrMove
  BY <1>1 DEF Trigger, Mark, Begin, OcrReady, Fetch, Ingest, Close, Record, Report,
              ReportRecord, Caught, WriteSkipped, Uncaught, OcrMove
<1>2. ASSUME NEW t \in Tasks, BeginConfluence(t) \/ Finally(t) \/ OcrUser(t) \/ OcrFaulty(t)
      PROVE  OcrMove
  BY <1>2 DEF BeginConfluence, Finally, OcrUser, OcrFaulty, OcrMove, Tasks
<1>3. CASE \/ \E s \in Sources : EditRead(s) \/ FileIngest(s) \/ NewRevision(s)
           \/ EditWrite
  BY <1>3 DEF EditRead, FileIngest, NewRevision, EditWrite, OcrMove
<1>4. CASE Restart
  BY <1>4 DEF Restart, OcrMove, Crash, Tasks
<1>5. CASE Ec2
  BY <1>5 DEF Ec2, OcrMove
<1>6. CASE UNCHANGED vars
  BY <1>6 DEF vars, OcrMove
<1> QED
  BY <1>1, <1>2, <1>3, <1>4, <1>5, <1>6 DEF Next, TaskStep

\* The instance, its address and its users agree in every reachable state.
THEOREM OcrInvariant == Spec => []OcrInv
<1>1. Init => OcrInv
  BY InitOcrInv DEF Init
<1>2. OcrInv /\ [Next]_vars => OcrInv'
  BY NextIsOcrMove, OcrInvStep
<1> QED
  BY <1>1, <1>2, PTL DEF Spec

\* A user beside whom nobody else was at work has the instance running at the
\* address it was given, and that address in Redis when it could write it, for
\* any number of users, boots and failures before it.
THEOREM AloneServed == Spec => []AloneIsServed
<1>1. OcrInv => AloneIsServed
  BY DEF OcrInv, AloneIsServed, AloneOK, AtWork, Served, Live
<1> QED
  BY <1>1, OcrInvariant, PTL

\* With nobody at work the instance is up only after a user gave up on it,
\* failed to stop it or died.
THEOREM UpExplained == Spec => []UpIsExplained
<1>1. OcrInv => UpIsExplained
  BY DEF OcrInv, UpIsExplained, Up, AtWork, Blamed, Responsible
<1> QED
  BY <1>1, OcrInvariant, PTL

-----------------------------------------------------------------------------
(* The syncs                                                               *)

RowType == [kind : Kinds, status : Statuses, fp : 0 .. MaxRev]
RecordStates == {"none", "running", "completed", "failed"}

Unfetched == {"idle", "mark", "begin", "ocr", "fetch"}

\* A task that has yet to write the status of its row, or never will.
Unclosed(task) == task.pc \in {"begin", "ocr", "fetch", "ingest", "close", "report"} \/ task.lost

\* What a task knows of what it fetched, of its record and of its snapshot.
TaskOK(t) ==
    /\ tasks[t].pc # "idle" => tasks[t].src \in Sources
    /\ tasks[t].pc = "mark" => tasks[t].admin
    /\ tasks[t].got # "nothing" => tasks[t].rev # 0
    /\ tasks[t].pc \in Unfetched => tasks[t].got = "nothing"
    /\ tasks[t].pc = "ingest" => tasks[t].got = "docs"
    /\ tasks[t].pc = "close" => tasks[t].got # "nothing"
    /\ records[t] = "completed" => tasks[t].pc \in {"finally", "done"}
    /\ tasks[t].pc \in {"finally", "done"} /\ records[t] = "running" =>
           tasks[t].lost \/ (KindOf(t) = "git" /\ tasks[t].got = "empty")
    /\ tasks[t].got = "docs" /\ (tasks[t].pc \in {"close", "record"} \/ records[t] = "completed") =>
           tasks[t].rev \in handed[tasks[t].src]
    /\ tasks[t].got = "skip" => Covered(tasks[t].src, tasks[t].rev)
    /\ tasks[t].snap # 0 => tasks[t].pc # "idle" /\ Covered(tasks[t].src, tasks[t].snap)

\* A fingerprint was saved by a task that fetched it; a row that says syncing
\* has a task that will write the status, or was lost.
RowOK(s) ==
    /\ rows[s].fp # 0 =>
           /\ Covered(s, rows[s].fp)
           /\ \E e \in TasksOf(s) : tasks[e].rev = rows[s].fp /\ tasks[e].got # "nothing"
    /\ rows[s].status = "syncing" =>
           s \in touched \/ \E t \in TasksOf(s) : tasks[t].admin /\ Unclosed(tasks[t])

SyncInv ==
    /\ TypeOK
    /\ edit # NoEdit => edit.src \in Sources
    /\ \A t \in Tasks : TaskOK(t)
    /\ \A s \in Sources : RowOK(s)

\* What a step of a task may write besides the task itself.
Writes(t) ==
    /\ rows' \in [Sources -> RowType]
    /\ \A s \in Sources :
           /\ rows'[s].kind = rows[s].kind
           /\ s # tasks[t].src => rows'[s] = rows[s]
           /\ rows'[s].fp = rows[s].fp \/ (tasks[t].pc = "close" /\ rows'[s].fp = tasks[t].rev)
    /\ records' \in [Tasks -> RecordStates]
    /\ \A e \in Tasks : e # t => records'[e] = records[e]
    /\ handed' \in [Sources -> SUBSET (1 .. MaxRev)]
    /\ \A s \in Sources : handed[s] \subseteq handed'[s]
    /\ UNCHANGED <<head, edit, edits, touched>>
    /\ faults' \in 0 .. MaxUpsets

\* The task goes on as d, with what it fetched once it has.
Continues(t, d) ==
    /\ d.pc \notin {"idle", "mark"} /\ d.src = tasks[t].src /\ d.admin = tasks[t].admin
    /\ d.snap = tasks[t].snap
    /\ tasks[t].got # "nothing" => d.got = tasks[t].got /\ d.rev = tasks[t].rev
    /\ d.got # "nothing" => d.rev # 0
    /\ d.got = "skip" => tasks[t].got = "skip" \/ Covered(d.src, d.rev)

\* The stage it goes to fits what it has, and so do its row and record.
Fits(t, d) ==
    /\ d.pc \in Unfetched => d.got = "nothing"
    /\ d.pc = "ingest" => d.got = "docs"
    /\ d.pc = "close" => d.got # "nothing"
    /\ records'[t] = "completed" => d.pc \in {"finally", "done"}
    /\ d.pc \in {"finally", "done"} /\ records'[t] = "running" =>
           d.lost \/ (KindOf(t) = "git" /\ d.got = "empty")
    /\ d.got = "docs" /\ (d.pc \in {"close", "record"} \/ records'[t] = "completed") =>
           d.rev \in handed'[d.src]
    /\ rows'[d.src].status = "syncing" =>
           \/ d.admin /\ Unclosed(d)
           \/ rows[d.src].status = "syncing" /\ (Unclosed(tasks[t]) => Unclosed(d))

LEMMA TaskMoves ==
    ASSUME SyncInv, OcrTypeOK', NEW t \in Tasks, NEW d \in TaskType,
           tasks' = [tasks EXCEPT ![t] = d], tasks[t].pc # "idle",
           Writes(t), Continues(t, d), Fits(t, d)
    PROVE  SyncInv'
<1> DEFINE InNext(s, r) ==
             \/ r \in handed'[s]
             \/ \E e \in Tasks : /\ tasks'[e].pc # "idle" /\ tasks'[e].src = s
                                 /\ tasks'[e].rev = r /\ tasks'[e].got = "empty"
<1>1. tasks \in [Tasks -> TaskType] /\ TaskOK(t) /\ tasks[t].src \in Sources /\ d.src \in Sources
  BY DEF SyncInv, TypeOK, TaskOK, Continues
<1>2. tasks'[t] = d /\ \A e \in Tasks : e # t => tasks'[e] = tasks[e]
  BY <1>1
<1>3. TypeOK'
  BY <1>1 DEF Writes, SyncInv, TypeOK, RowType, RecordStates
<1>4. ASSUME NEW s \in Sources PROVE \A e \in TasksOf(s) : e \in TasksOf(s)'
  BY <1>2, <1>4 DEF TasksOf, Continues
<1>5. ASSUME NEW s \in Sources, NEW r, Covered(s, r) PROVE InNext(s, r)
  <2>1. CASE r \in handed[s]
    BY <2>1 DEF Writes
  <2>2. CASE \E e \in TasksOf(s) : tasks[e].rev = r /\ tasks[e].got = "empty"
    <3>1. PICK e \in TasksOf(s) : tasks[e].rev = r /\ tasks[e].got = "empty"
      BY <2>2
    <3>2. tasks'[e].rev = r /\ tasks'[e].got = "empty"
      BY <3>1, <1>2 DEF Continues, TasksOf
    <3> QED
      BY <3>1, <3>2, <1>4 DEF TasksOf
  <2> QED
    BY <1>5, <2>1, <2>2 DEF Covered
<1>6. ASSUME NEW e \in Tasks, tasks[e].pc # "idle" PROVE KindOf(e)' = KindOf(e)
  <2>1. tasks[e].src \in Sources /\ tasks'[e].src = tasks[e].src
    BY <1>2, <1>6 DEF SyncInv, TaskOK, Continues
  <2> QED
    BY <2>1 DEF KindOf, Writes
<1>7. ASSUME NEW e \in Tasks PROVE TaskOK(e)'
  <2>1. CASE e = t
    <3>1. d.got = "skip" => InNext(d.src, d.rev)
      BY <1>1, <1>5 DEF Continues, TaskOK
    <3>2. d.snap # 0 => InNext(d.src, d.snap)
      BY <1>1, <1>5 DEF Continues, TaskOK
    <3> QED
      BY <2>1, <3>1, <3>2, <1>1, <1>2, <1>6 DEF TaskOK, Continues, Fits, Covered, TasksOf
  <2>2. CASE e # t
    <3>1. TaskOK(e) /\ tasks'[e] = tasks[e] /\ records'[e] = records[e]
      BY <2>2, <1>2 DEF SyncInv, Writes
    <3>2. CASE tasks[e].pc = "idle"
      BY <3>1, <3>2 DEF TaskOK, Unfetched
    <3>3. CASE tasks[e].pc # "idle"
      <4>1. tasks[e].src \in Sources /\ KindOf(e)' = KindOf(e)
        BY <3>1, <3>3, <1>6 DEF TaskOK
      <4>2. tasks[e].got = "skip" => InNext(tasks[e].src, tasks[e].rev)
        BY <3>1, <4>1, <1>5 DEF TaskOK
      <4>3. tasks[e].snap # 0 => InNext(tasks[e].src, tasks[e].snap)
        BY <3>1, <4>1, <1>5 DEF TaskOK
      <4>4. handed[tasks[e].src] \subseteq handed'[tasks[e].src]
        BY <4>1 DEF Writes
      <4> QED
        BY <3>1, <4>1, <4>2, <4>3, <4>4 DEF TaskOK, Covered, TasksOf
    <3> QED
      BY <3>2, <3>3
  <2> QED
    BY <2>1, <2>2
<1>8. ASSUME NEW s \in Sources PROVE RowOK(s)'
  <2>1. ASSUME rows'[s].fp # 0
        PROVE  /\ InNext(s, rows'[s].fp)
               /\ \E e \in TasksOf(s)' : tasks'[e].rev = rows'[s].fp /\ tasks'[e].got # "nothing"
    <3>1. CASE rows'[s].fp = rows[s].fp
      <4>1. /\ Covered(s, rows[s].fp)
            /\ \E e \in TasksOf(s) : tasks[e].rev = rows[s].fp /\ tasks[e].got # "nothing"
        BY <2>1, <3>1 DEF SyncInv, RowOK
      <4>2. InNext(s, rows'[s].fp)
        BY <3>1, <4>1, <1>5
      <4>3. PICK e \in TasksOf(s) : tasks[e].rev = rows[s].fp /\ tasks[e].got # "nothing"
        BY <4>1
      <4>4. tasks'[e].rev = rows'[s].fp /\ tasks'[e].got # "nothing"
        BY <3>1, <4>3, <1>2 DEF Continues, TasksOf
      <4> QED
        BY <4>2, <4>3, <4>4, <1>4
    <3>2. CASE rows'[s].fp # rows[s].fp
      <4>1. s = tasks[t].src /\ tasks[t].pc = "close" /\ rows'[s].fp = tasks[t].rev
        BY <3>2 DEF Writes
      <4>2. tasks[t].got \in {"skip", "empty", "docs"} /\ t \in TasksOf(s)
        BY <4>1, <1>1 DEF TaskOK, TaskType, TasksOf
      <4>3. Covered(s, tasks[t].rev)
        BY <4>1, <4>2, <1>1 DEF TaskOK, Covered
      <4>4. InNext(s, rows'[s].fp)
        BY <4>1, <4>3, <1>5
      <4>5. t \in TasksOf(s)' /\ tasks'[t].rev = rows'[s].fp /\ tasks'[t].got # "nothing"
        BY <4>1, <4>2, <1>2, <1>4 DEF Continues
      <4> QED
        BY <4>4, <4>5
    <3> QED
      BY <3>1, <3>2
  <2>2. ASSUME rows'[s].status = "syncing", s \notin touched
        PROVE  \E e \in TasksOf(s)' : tasks'[e].admin /\ Unclosed(tasks'[e])
    <3>1. CASE s = d.src /\ d.admin /\ Unclosed(d)
      <4>1. t \in TasksOf(s)'
        BY <3>1, <1>2 DEF TasksOf, Continues
      <4> QED
        BY <4>1, <3>1, <1>2
    <3>2. CASE rows[s].status = "syncing" /\ (s = d.src => (Unclosed(tasks[t]) => Unclosed(d)))
      <4>1. PICK e \in TasksOf(s) : tasks[e].admin /\ Unclosed(tasks[e])
        BY <2>2, <3>2 DEF SyncInv, RowOK
      <4>2. tasks'[e].admin /\ Unclosed(tasks'[e])
        BY <3>2, <4>1, <1>2 DEF TasksOf, Continues
      <4> QED
        BY <4>1, <4>2, <1>4
    <3> QED
      BY <2>2, <3>1, <3>2 DEF Fits, Writes, Continues
  <2> QED
    BY <2>1, <2>2 DEF RowOK, Writes, Covered, TasksOf, Unclosed
<1> QED
  BY <1>3, <1>7, <1>8 DEF SyncInv, Writes

\* A task that goes to another stage keeps the rest.
LEMMA Goes ==
    ASSUME SyncInv, NEW t \in Tasks, NEW pc \in TaskSteps, pc \notin {"idle", "mark"},
           tasks[t].pc # "idle", Goto(t, pc)
    PROVE  \E d \in TaskType : /\ tasks' = [tasks EXCEPT ![t] = d] /\ Continues(t, d)
                              /\ d.pc = pc /\ d.got = tasks[t].got /\ d.rev = tasks[t].rev
                              /\ d.lost = tasks[t].lost
<1> DEFINE d == [tasks[t] EXCEPT !.pc = pc]
<1>1. tasks \in [Tasks -> TaskType] /\ tasks[t] \in TaskType /\ TaskOK(t)
  BY DEF SyncInv, TypeOK
<1>2. /\ d \in TaskType /\ d.pc = pc /\ d.got = tasks[t].got /\ d.rev = tasks[t].rev
      /\ d.lost = tasks[t].lost /\ d.src = tasks[t].src /\ d.admin = tasks[t].admin
      /\ d.snap = tasks[t].snap
  BY <1>1 DEF TaskType
<1>3. tasks' = [tasks EXCEPT ![t] = d]
  BY DEF Goto
<1> HIDE DEF d
<1>4. Continues(t, d)
  BY <1>1, <1>2 DEF Continues, TaskOK
<1> QED
  BY <1>2, <1>3, <1>4

\* So does one that is lost on the way.
LEMMA Loses ==
    ASSUME SyncInv, NEW t \in Tasks, NEW pc \in TaskSteps, pc \notin {"idle", "mark"},
           tasks[t].pc # "idle",
           tasks' = [tasks EXCEPT ![t] = [@ EXCEPT !.pc = pc, !.lost = TRUE]]
    PROVE  \E d \in TaskType : /\ tasks' = [tasks EXCEPT ![t] = d] /\ Continues(t, d)
                              /\ d.pc = pc /\ d.got = tasks[t].got /\ d.rev = tasks[t].rev
                              /\ d.lost
<1> DEFINE d == [tasks[t] EXCEPT !.pc = pc, !.lost = TRUE]
<1>1. tasks \in [Tasks -> TaskType] /\ tasks[t] \in TaskType /\ TaskOK(t)
  BY DEF SyncInv, TypeOK
<1>2. /\ d \in TaskType /\ d.pc = pc /\ d.got = tasks[t].got /\ d.rev = tasks[t].rev
      /\ d.lost /\ d.src = tasks[t].src /\ d.admin = tasks[t].admin
      /\ d.snap = tasks[t].snap
  BY <1>1 DEF TaskType
<1>3. tasks' = [tasks EXCEPT ![t] = d]
  OBVIOUS
<1> HIDE DEF d
<1>4. Continues(t, d)
  BY <1>1, <1>2 DEF Continues, TaskOK
<1> QED
  BY <1>2, <1>3, <1>4

LEMMA FaultCounted ==
    ASSUME SyncInv, AnyFault
    PROVE  faults' \in 0 .. MaxUpsets
  BY DEF SyncInv, TypeOK, AnyFault

\* A step that leaves rows, records and revisions as they are.
LEMMA WritesNothing ==
    ASSUME SyncInv, NEW t \in Tasks, faults' \in 0 .. MaxUpsets,
           UNCHANGED <<rows, records, head, handed, edit, edits, touched>>
    PROVE  Writes(t)
  BY DEF SyncInv, TypeOK, Writes, RowType, RecordStates

\* A task that writes the status of its row, or saves what it fetched.
LEMMA WritesItsRow ==
    ASSUME SyncInv, NEW t \in Tasks, tasks[t].src \in Sources, NEW status \in Statuses,
           \/ SetStatus(tasks[t].src, status)
           \/ /\ tasks[t].pc = "close"
              /\ rows' = [rows EXCEPT ![tasks[t].src] =
                             [@ EXCEPT !.status = status, !.fp = tasks[t].rev]],
           UNCHANGED <<records, head, handed, edit, edits, touched, faults>>
    PROVE  Writes(t) /\ rows'[tasks[t].src].status = status
<1> DEFINE src == tasks[t].src
<1>1. rows \in [Sources -> RowType] /\ tasks[t].rev \in 0 .. MaxRev
  BY DEF SyncInv, TypeOK, RowType, TaskType
<1>2. PICK row \in RowType : /\ rows' = [rows EXCEPT ![src] = row]
                             /\ row.kind = rows[src].kind /\ row.status = status
                             /\ \/ row.fp = rows[src].fp
                                \/ tasks[t].pc = "close" /\ row.fp = tasks[t].rev
  <2>1. CASE SetStatus(tasks[t].src, status)
    <3> DEFINE row == [rows[src] EXCEPT !.status = status]
    <3>1. row \in RowType /\ row.kind = rows[src].kind /\ row.status = status
          /\ row.fp = rows[src].fp
      BY <1>1 DEF RowType
    <3>2. rows' = [rows EXCEPT ![src] = row]
      BY <2>1 DEF SetStatus
    <3> QED
      BY <3>1, <3>2
  <2>2. CASE /\ tasks[t].pc = "close"
             /\ rows' = [rows EXCEPT ![tasks[t].src] =
                            [@ EXCEPT !.status = status, !.fp = tasks[t].rev]]
    <3> DEFINE row == [rows[src] EXCEPT !.status = status, !.fp = tasks[t].rev]
    <3>1. row \in RowType /\ row.kind = rows[src].kind /\ row.status = status
          /\ row.fp = tasks[t].rev
      BY <1>1 DEF RowType
    <3>2. rows' = [rows EXCEPT ![src] = row]
      BY <2>2
    <3> QED
      BY <3>1, <3>2, <2>2
  <2> QED
    BY <2>1, <2>2
<1>3. rows'[src] = row /\ \A s \in Sources : s # src => rows'[s] = rows[s]
  BY <1>1, <1>2
<1>4. rows' \in [Sources -> RowType]
  BY <1>1, <1>2
<1> QED
  BY <1>2, <1>3, <1>4 DEF Writes, SyncInv, TypeOK, RecordStates

\* The stages before anything is fetched.
LEMMA OpeningSteps ==
    ASSUME SyncInv, OcrTypeOK', NEW t \in Tasks,
           Mark(t) \/ Begin(t) \/ BeginConfluence(t) \/ OcrReady(t)
    PROVE  SyncInv'
<1>1. tasks[t] \in TaskType /\ TaskOK(t) /\ faults \in 0 .. MaxUpsets
  BY DEF SyncInv, TypeOK
<1>2. CASE Mark(t)
  <2>1. tasks[t].pc = "mark" /\ tasks[t].src \in Sources /\ tasks[t].admin
        /\ tasks[t].got = "nothing"
    BY <1>1, <1>2 DEF Mark, TaskOK, Unfetched
  <2>2. PICK d \in TaskType : /\ tasks' = [tasks EXCEPT ![t] = d] /\ Continues(t, d)
                              /\ d.pc = "begin" /\ d.got = tasks[t].got
    BY <1>2, <2>1, Goes DEF Mark, TaskSteps
  <2>3. Writes(t)
    BY <1>2, <2>1, WritesItsRow DEF Mark, Statuses
  <2>4. Fits(t, d)
    BY <1>1, <1>2, <2>1, <2>2 DEF Mark, Fits, Continues, Unfetched, Unclosed, TaskOK
  <2> QED
    BY <2>1, <2>2, <2>3, <2>4, TaskMoves
<1>3. ASSUME NEW pc \in {"begin", "ocr"}, tasks[t].pc = pc, Goto(t, "fetch"),
             UNCHANGED <<rows, head, handed, edit, edits, touched>>,
             \E status \in {"running", "none"} :
                /\ records' = [records EXCEPT ![t] = status]
                /\ IF status = "running" THEN UNCHANGED faults ELSE AnyFault
      PROVE  SyncInv'
  <2>1. tasks[t].pc # "idle" /\ tasks[t].src \in Sources /\ tasks[t].got = "nothing"
    BY <1>1, <1>3 DEF TaskOK, Unfetched
  <2>2. PICK d \in TaskType : /\ tasks' = [tasks EXCEPT ![t] = d] /\ Continues(t, d)
                              /\ d.pc = "fetch" /\ d.got = tasks[t].got
    BY <1>3, <2>1, Goes DEF TaskSteps
  <2>3. /\ faults' \in 0 .. MaxUpsets
        /\ records' \in [Tasks -> RecordStates] /\ records'[t] # "completed"
        /\ \A u \in Tasks : u # t => records'[u] = records[u]
    BY <1>1, <1>3, FaultCounted DEF SyncInv, TypeOK, RecordStates
  <2>4. Writes(t)
    BY <1>3, <2>3 DEF Writes, SyncInv, TypeOK, RowType
  <2>5. Fits(t, d)
    BY <1>3, <2>1, <2>2, <2>3 DEF Fits, Continues, Unfetched, Unclosed
  <2> QED
    BY <2>1, <2>2, <2>4, <2>5, TaskMoves
<1>4. CASE BeginConfluence(t)
  <2>1. tasks[t].pc = "begin" /\ tasks[t].src \in Sources /\ tasks[t].got = "nothing"
        /\ records[t] # "completed"
    BY <1>1, <1>4 DEF BeginConfluence, TaskOK, Unfetched
  <2>2. PICK pc \in {"ocr", "report"} : Goto(t, pc) /\ faults' \in 0 .. MaxUpsets
    BY <1>1, <1>4, FaultCounted DEF BeginConfluence
  <2>3. PICK d \in TaskType : /\ tasks' = [tasks EXCEPT ![t] = d] /\ Continues(t, d)
                              /\ d.pc = pc /\ d.got = tasks[t].got
    BY <2>1, <2>2, Goes DEF TaskSteps
  <2>4. Writes(t)
    BY <1>4, <2>2, WritesNothing DEF BeginConfluence
  <2>5. Fits(t, d)
    BY <1>4, <2>1, <2>2, <2>3 DEF BeginConfluence, Fits, Continues, Unfetched, Unclosed
  <2> QED
    BY <2>1, <2>3, <2>4, <2>5, TaskMoves
<1> QED
  BY <1>2, <1>3, <1>4 DEF Begin, OcrReady

\* What is skipped is what the snapshot was of.
LEMMA FetchStep ==
    ASSUME SyncInv, OcrTypeOK', NEW t \in Tasks, Fetch(t)
    PROVE  SyncInv'
<1>1. /\ tasks \in [Tasks -> TaskType] /\ tasks[t] \in TaskType /\ TaskOK(t)
      /\ tasks[t].pc = "fetch" /\ tasks[t].src \in Sources /\ tasks[t].got = "nothing"
      /\ head[tasks[t].src] \in 1 .. MaxRev /\ records[t] # "completed"
  BY DEF SyncInv, TypeOK, Fetch, TaskOK, Unfetched
<1> DEFINE src == tasks[t].src
<1>2. PICK got \in {"skip", "empty", "docs"}, pc \in {"ingest", "close"} :
          /\ tasks' = [tasks EXCEPT ![t] =
                           [@ EXCEPT !.rev = head[src], !.got = got, !.pc = pc]]
          /\ pc = "ingest" <=> got = "docs"
          /\ got = "skip" => tasks[t].snap = head[src]
  BY DEF Fetch
<1> DEFINE d == [tasks[t] EXCEPT !.rev = head[src], !.got = got, !.pc = pc]
<1>3. /\ d \in TaskType /\ d.pc = pc /\ d.got = got /\ d.rev = head[src] /\ d.src = src
      /\ d.admin = tasks[t].admin /\ d.snap = tasks[t].snap /\ d.lost = tasks[t].lost
  <2>1. /\ pc \in TaskSteps /\ got \in {"nothing", "skip", "empty", "docs"}
        /\ head[src] \in 0 .. MaxRev
    BY <1>1 DEF TaskSteps
  <2> QED
    BY <2>1, <1>1 DEF TaskType
<1>4. tasks' = [tasks EXCEPT ![t] = d]
  BY <1>2
<1> HIDE DEF d
<1>5. got = "skip" => Covered(src, head[src])
  BY <1>1, <1>2 DEF TaskOK
<1>6. Continues(t, d)
  BY <1>1, <1>2, <1>3, <1>5 DEF Continues
<1>7. Writes(t)
  BY WritesNothing DEF Fetch, SyncInv, TypeOK
<1>8. Fits(t, d)
  BY <1>1, <1>2, <1>3 DEF Fetch, Fits, Unfetched, Unclosed
<1> QED
  BY <1>1, <1>2, <1>3, <1>4, <1>6, <1>7, <1>8, TaskMoves

LEMMA IngestStep ==
    ASSUME SyncInv, OcrTypeOK', NEW t \in Tasks, Ingest(t)
    PROVE  SyncInv'
<1>1. /\ tasks[t] \in TaskType /\ TaskOK(t) /\ tasks[t].pc = "ingest"
      /\ tasks[t].src \in Sources /\ tasks[t].got = "docs" /\ tasks[t].rev \in 1 .. MaxRev
      /\ records[t] # "completed" /\ handed \in [Sources -> SUBSET (1 .. MaxRev)]
  BY DEF SyncInv, TypeOK, TaskType, Ingest, TaskOK
<1>2. PICK d \in TaskType : /\ tasks' = [tasks EXCEPT ![t] = d] /\ Continues(t, d)
                            /\ d.pc = "close" /\ d.got = tasks[t].got /\ d.rev = tasks[t].rev
  BY <1>1, Goes DEF Ingest, TaskSteps
<1>3. /\ handed' \in [Sources -> SUBSET (1 .. MaxRev)]
      /\ \A s \in Sources : handed[s] \subseteq handed'[s]
      /\ tasks[t].rev \in handed'[tasks[t].src]
  BY <1>1 DEF Ingest
<1>4. Writes(t)
  BY <1>3 DEF Ingest, Writes, SyncInv, TypeOK, RowType, RecordStates
<1>5. Fits(t, d)
  BY <1>1, <1>2, <1>3 DEF Ingest, Fits, Continues, Unfetched, Unclosed
<1> QED
  BY <1>1, <1>2, <1>4, <1>5, TaskMoves

LEMMA CloseStep ==
    ASSUME SyncInv, OcrTypeOK', NEW t \in Tasks, Close(t)
    PROVE  SyncInv'
<1>1. /\ tasks[t] \in TaskType /\ TaskOK(t) /\ tasks[t].pc = "close"
      /\ tasks[t].src \in Sources /\ tasks[t].got # "nothing" /\ records[t] # "completed"
      /\ tasks[t].got = "docs" => tasks[t].rev \in handed[tasks[t].src]
      /\ records' = records /\ handed' = handed
  BY DEF SyncInv, TypeOK, Close, TaskOK
<1>2. CASE Goto(t, "report") /\ UNCHANGED rows
  <2>1. PICK d \in TaskType : /\ tasks' = [tasks EXCEPT ![t] = d] /\ Continues(t, d)
                              /\ d.pc = "report" /\ d.got = tasks[t].got
    BY <1>1, <1>2, Goes DEF TaskSteps
  <2>2. Writes(t)
    BY <1>2, WritesNothing DEF Close, SyncInv, TypeOK
  <2>3. Fits(t, d)
    BY <1>1, <1>2, <2>1 DEF Fits, Continues, Unfetched, Unclosed
  <2> QED
    BY <1>1, <2>1, <2>2, <2>3, TaskMoves
<1>3. CASE ~(Goto(t, "report") /\ UNCHANGED rows)
  <2>1. PICK pc \in {"record", "done"} :
            /\ Goto(t, pc)
            /\ pc = "done" => KindOf(t) = "git" /\ tasks[t].got = "empty"
    BY <1>3 DEF Close, AfterClose
  <2>2. Writes(t) /\ rows'[tasks[t].src].status = "active"
    BY <1>1, <1>3, WritesItsRow DEF Close, Statuses
  <2>3. PICK d \in TaskType : /\ tasks' = [tasks EXCEPT ![t] = d] /\ Continues(t, d)
                              /\ d.pc = pc /\ d.got = tasks[t].got /\ d.rev = tasks[t].rev
    BY <1>1, <2>1, Goes DEF TaskSteps
  <2>4. Fits(t, d)
    BY <1>1, <2>1, <2>2, <2>3 DEF Fits, Continues, Unfetched
  <2> QED
    BY <1>1, <2>2, <2>3, <2>4, TaskMoves
<1> QED
  BY <1>2, <1>3

LEMMA EndingIs ==
    ASSUME NEW t \in Tasks
    PROVE  Ending(t) \in {"finally", "done"} /\ Ending(t) \in TaskSteps
  BY DEF Ending, TaskSteps

\* The record and the row at the end of a task, and its finally clause.
LEMMA ClosingSteps ==
    ASSUME SyncInv, OcrTypeOK', NEW t \in Tasks,
           Record(t) \/ Report(t) \/ ReportRecord(t) \/ Finally(t)
    PROVE  SyncInv'
<1>1. tasks[t] \in TaskType /\ TaskOK(t) /\ records \in [Tasks -> RecordStates]
  BY DEF SyncInv, TypeOK, RecordStates
<1>2. ASSUME NEW status \in {"completed", "failed"},
             tasks[t].pc = IF status = "completed" THEN "record" ELSE "settle",
             Settle(t, status), Goto(t, Ending(t)),
             UNCHANGED <<rows, head, handed, edit, edits, touched, faults>>
      PROVE  SyncInv'
  <2>1. tasks[t].pc \in {"record", "settle"} /\ tasks[t].src \in Sources
    BY <1>1, <1>2 DEF TaskOK
  <2>2. PICK d \in TaskType : /\ tasks' = [tasks EXCEPT ![t] = d] /\ Continues(t, d)
                              /\ d.pc \in {"finally", "done"} /\ d.got = tasks[t].got
                              /\ d.rev = tasks[t].rev /\ d.lost = tasks[t].lost
    BY <1>2, <2>1, Goes, EndingIs
  <2>3. /\ records' \in [Tasks -> RecordStates]
        /\ \A u \in Tasks : u # t => records'[u] = records[u]
        /\ records'[t] \in {"none", status}
    BY <1>1, <1>2 DEF Settle, RecordStates
  <2>4. Writes(t)
    BY <1>2, <2>3 DEF Writes, SyncInv, TypeOK, RowType
  <2>5. Fits(t, d)
    BY <1>1, <1>2, <2>1, <2>2, <2>3 DEF Fits, Continues, Unfetched, Unclosed, TaskOK
  <2> QED
    BY <2>1, <2>2, <2>4, <2>5, TaskMoves
<1>3. CASE Report(t)
  <2>1. tasks[t].pc = "report" /\ tasks[t].src \in Sources /\ records[t] # "completed"
    BY <1>1, <1>3 DEF Report, TaskOK
  <2>2. PICK d \in TaskType : /\ tasks' = [tasks EXCEPT ![t] = d] /\ Continues(t, d)
                              /\ d.pc = "settle"
    BY <1>3, <2>1, Goes DEF Report, TaskSteps
  <2>3. Writes(t) /\ rows'[tasks[t].src].status = "error"
    BY <1>3, <2>1, WritesItsRow DEF Report, Statuses
  <2>4. Fits(t, d)
    BY <1>3, <2>1, <2>2, <2>3 DEF Report, Fits, Continues, Unfetched
  <2> QED
    BY <2>1, <2>2, <2>3, <2>4, TaskMoves
<1>4. CASE Finally(t)
  <2>1. tasks[t].pc = "finally" /\ tasks[t].src \in Sources
    BY <1>1, <1>4 DEF Finally, TaskOK
  <2>2. PICK d \in TaskType : /\ tasks' = [tasks EXCEPT ![t] = d] /\ Continues(t, d)
                              /\ d.pc = "done" /\ d.got = tasks[t].got
                              /\ d.rev = tasks[t].rev /\ d.lost = tasks[t].lost
    BY <1>4, <2>1, Goes DEF Finally, TaskSteps
  <2>3. Writes(t)
    BY <1>4, WritesNothing DEF Finally, SyncInv, TypeOK
  <2>4. Fits(t, d)
    BY <1>1, <1>4, <2>1, <2>2 DEF Finally, Fits, Continues, Unfetched, Unclosed, TaskOK
  <2> QED
    BY <2>1, <2>2, <2>3, <2>4, TaskMoves
<1>5. CASE Record(t)
  BY <1>2, <1>5 DEF Record
<1>6. CASE ReportRecord(t)
  BY <1>2, <1>6 DEF ReportRecord
<1> QED
  BY <1>3, <1>4, <1>5, <1>6

\* A fault leaves row and record as they are, and the task is lost unless it is
\* going to report.
LEMMA FaultSteps ==
    ASSUME SyncInv, OcrTypeOK', NEW t \in Tasks,
           Caught(t) \/ WriteSkipped(t) \/ Uncaught(t)
    PROVE  SyncInv'
<1>1. tasks[t] \in TaskType /\ TaskOK(t)
  BY DEF SyncInv, TypeOK
<1>2. /\ tasks[t].pc \in {"begin", "fetch", "ingest", "close", "record", "report", "settle"}
      /\ faults' \in 0 .. MaxUpsets
      /\ UNCHANGED <<rows, records, head, handed, edit, edits, touched>>
  BY FaultCounted DEF Caught, WriteSkipped, Uncaught
<1>3. tasks[t].src \in Sources /\ records[t] # "completed" /\ Writes(t)
  BY <1>1, <1>2, WritesNothing DEF TaskOK
<1>4. CASE Caught(t)
  <2>1. PICK d \in TaskType : /\ tasks' = [tasks EXCEPT ![t] = d] /\ Continues(t, d)
                              /\ d.pc = "report"
    BY <1>2, <1>4, Goes DEF Caught, TaskSteps
  <2>2. Fits(t, d)
    BY <1>2, <1>3, <2>1 DEF Fits, Continues, Unfetched, Unclosed
  <2> QED
    BY <1>2, <1>3, <2>1, <2>2, TaskMoves
<1>5. CASE WriteSkipped(t) \/ Uncaught(t)
  <2>1. PICK pc \in {"settle", "finally", "done"} :
            tasks' = [tasks EXCEPT ![t] = [@ EXCEPT !.pc = pc, !.lost = TRUE]]
    BY <1>5, EndingIs DEF WriteSkipped, Uncaught
  <2>2. PICK d \in TaskType : /\ tasks' = [tasks EXCEPT ![t] = d] /\ Continues(t, d)
                              /\ d.pc = pc /\ d.lost
    <3>1. tasks[t].pc # "idle" /\ pc \in TaskSteps /\ pc \notin {"idle", "mark"}
      BY <1>2 DEF TaskSteps
    <3> QED
      BY <2>1, <3>1, Loses
  <2>3. Fits(t, d)
    BY <1>2, <1>3, <2>2 DEF Fits, Continues, Unfetched, Unclosed
  <2> QED
    BY <1>2, <1>3, <2>2, <2>3, TaskMoves
<1> QED
  BY <1>4, <1>5

\* Tasks that stay as they are or are lost where they stand, and rows of which
\* another writer has at most written the status.
TaskStays(t) ==
    \/ tasks'[t] = tasks[t]
    \/ Working(t) /\ tasks'[t] = [tasks[t] EXCEPT !.pc = "done", !.lost = TRUE]

RowStays(s) ==
    /\ rows'[s].kind = rows[s].kind /\ rows'[s].fp = rows[s].fp
    /\ rows'[s].status = "syncing" => rows[s].status = "syncing" \/ s \in touched'

LEMMA TasksStay ==
    ASSUME SyncInv, TypeOK', UNCHANGED <<records, handed>>,
           edit' # NoEdit => edit'.src \in Sources,
           touched \subseteq touched',
           \A s \in Sources : RowStays(s), \A t \in Tasks : TaskStays(t)
    PROVE  SyncInv'
<1> DEFINE InNext(s, r) ==
             \/ r \in handed'[s]
             \/ \E e \in Tasks : /\ tasks'[e].pc # "idle" /\ tasks'[e].src = s
                                 /\ tasks'[e].rev = r /\ tasks'[e].got = "empty"
<1>1. tasks \in [Tasks -> TaskType] /\ \A e \in Tasks : TaskOK(e)
  BY DEF SyncInv, TypeOK
<1>2. ASSUME NEW e \in Tasks
      PROVE  /\ tasks'[e].src = tasks[e].src /\ tasks'[e].admin = tasks[e].admin
             /\ tasks'[e].rev = tasks[e].rev /\ tasks'[e].got = tasks[e].got
             /\ tasks'[e].snap = tasks[e].snap
             /\ tasks'[e].pc = "idle" <=> tasks[e].pc = "idle"
             /\ Unclosed(tasks[e]) => Unclosed(tasks'[e])
             /\ \/ tasks'[e] = tasks[e]
                \/ tasks'[e].pc = "done" /\ tasks'[e].lost /\ tasks[e].pc # "idle"
  <2>1. tasks[e] \in TaskType
    BY <1>1
  <2>2. TaskStays(e)
    OBVIOUS
  <2>3. CASE tasks'[e] = tasks[e]
    BY <2>3
  <2>4. CASE Working(e) /\ tasks'[e] = [tasks[e] EXCEPT !.pc = "done", !.lost = TRUE]
    BY <2>1, <2>4 DEF TaskType, Working, Unclosed
  <2> QED
    BY <2>2, <2>3, <2>4 DEF TaskStays
<1>3. ASSUME NEW s \in Sources, NEW r, Covered(s, r) PROVE InNext(s, r)
  BY <1>2, <1>3 DEF Covered, TasksOf
<1>4. ASSUME NEW e \in Tasks PROVE TaskOK(e)'
  <2>1. TaskOK(e) /\ records' = records
    BY <1>1
  <2>2. CASE tasks[e].pc = "idle"
    <3>1. tasks'[e] = tasks[e]
      BY <2>2, <1>2
    <3> QED
      BY <2>1, <2>2, <3>1 DEF TaskOK, Unfetched
  <2>3. CASE tasks[e].pc # "idle"
    <3>1. tasks[e].src \in Sources /\ rows'[tasks[e].src].kind = rows[tasks[e].src].kind
      BY <2>1, <2>3 DEF TaskOK, RowStays
    <3>2. tasks[e].got = "skip" => InNext(tasks[e].src, tasks[e].rev)
      BY <3>1, <2>1, <1>3 DEF TaskOK
    <3>3. tasks[e].snap # 0 => InNext(tasks[e].src, tasks[e].snap)
      BY <3>1, <2>1, <1>3 DEF TaskOK
    <3> QED
      BY <2>1, <2>3, <3>1, <3>2, <3>3, <1>2 DEF TaskOK, Unfetched, Covered, TasksOf, KindOf
  <2> QED
    BY <2>2, <2>3
<1>5. ASSUME NEW s \in Sources PROVE RowOK(s)'
  <2>1. RowOK(s) /\ RowStays(s) /\ touched \subseteq touched'
    BY DEF SyncInv
  <2>2. rows[s].fp # 0 =>
            /\ InNext(s, rows[s].fp)
            /\ \E e \in Tasks : /\ tasks'[e].pc # "idle" /\ tasks'[e].src = s
                               /\ tasks'[e].rev = rows[s].fp /\ tasks'[e].got # "nothing"
    BY <2>1, <1>2, <1>3 DEF RowOK, TasksOf, RowStays
  <2>3. rows'[s].status = "syncing" =>
            \/ s \in touched'
            \/ \E e \in Tasks : /\ tasks'[e].pc # "idle" /\ tasks'[e].src = s
                               /\ tasks'[e].admin /\ Unclosed(tasks'[e])
    BY <2>1, <1>2 DEF RowOK, TasksOf, RowStays
  <2> QED
    BY <2>1, <2>2, <2>3 DEF RowOK, RowStays, Covered, TasksOf, Unclosed
<1> QED
  BY <1>4, <1>5 DEF SyncInv

\* The new task has nothing yet, and its snapshot is a saved fingerprint.
LEMMA TriggerStep ==
    ASSUME SyncInv, OcrTypeOK', NEW t \in Tasks, NEW s \in Sources, NEW admin \in BOOLEAN,
           Trigger(t, s, admin)
    PROVE  SyncInv'
<1> DEFINE InNext(r) ==
             \/ r \in handed'[s]
             \/ \E e \in Tasks : /\ tasks'[e].pc # "idle" /\ tasks'[e].src = s
                                 /\ tasks'[e].rev = r /\ tasks'[e].got = "empty"
<1>1. /\ tasks \in [Tasks -> TaskType] /\ rows \in [Sources -> RowType]
      /\ tasks[t].pc = "idle" /\ TaskOK(t) /\ RowOK(s)
      /\ UNCHANGED <<rows, records, head, handed, edit, edits, touched, faults>>
  BY DEF SyncInv, TypeOK, RowType, Trigger
<1>2. PICK pc \in {"mark", "begin"} :
          /\ pc = "mark" => admin
          /\ tasks' = [tasks EXCEPT ![t] = [NewTask EXCEPT !.pc = pc, !.src = s, !.admin = admin,
                                                          !.snap = rows[s].fp]]
  BY DEF Trigger
<1> DEFINE d == [NewTask EXCEPT !.pc = pc, !.src = s, !.admin = admin, !.snap = rows[s].fp]
<1>3. /\ d \in TaskType /\ d.pc = pc /\ d.src = s /\ d.admin = admin /\ d.snap = rows[s].fp
      /\ d.got = "nothing" /\ d.rev = 0
  <2>1. rows[s].fp \in 0 .. MaxRev /\ pc \in TaskSteps
    BY <1>1 DEF RowType, TaskSteps
  <2>2. 0 \in 0 .. MaxRev
    BY SyncAssumption
  <2> QED
    BY <2>1, <2>2 DEF NewTask, TaskType
<1>4. tasks' = [tasks EXCEPT ![t] = d]
  BY <1>2
<1> HIDE DEF d
<1>5. tasks'[t] = d /\ \A e \in Tasks : e # t => tasks'[e] = tasks[e]
  BY <1>1, <1>4
<1>6. TypeOK'
  BY <1>1, <1>3, <1>4 DEF SyncInv, TypeOK
<1>7. rows[s].fp # 0 => InNext(rows[s].fp)
  BY <1>1, <1>5 DEF RowOK, Covered, TasksOf
<1>8. ASSUME NEW e \in Tasks PROVE TaskOK(e)'
  <2>1. CASE e = t
    <3>1. /\ tasks'[t] = d /\ records'[t] = records[t] /\ records[t] # "completed"
          /\ d.pc \in {"mark", "begin"} /\ (d.pc = "mark" => d.admin) /\ d.got = "nothing"
          /\ d.src = s /\ s \in Sources /\ (d.snap # 0 => InNext(d.snap))
      BY <1>1, <1>2, <1>3, <1>5, <1>7 DEF TaskOK
    <3> QED
      BY <2>1, <3>1 DEF TaskOK, Unfetched, Covered, TasksOf
  <2>2. CASE e # t
    <3>1. TaskOK(e) /\ tasks'[e] = tasks[e]
      BY <2>2, <1>5 DEF SyncInv
    <3>2. ASSUME NEW x, NEW r, Covered(x, r)
          PROVE  \/ r \in handed'[x]
                 \/ \E u \in Tasks : /\ tasks'[u].pc # "idle" /\ tasks'[u].src = x
                                     /\ tasks'[u].rev = r /\ tasks'[u].got = "empty"
      BY <3>2, <1>1, <1>5 DEF Covered, TasksOf
    <3> QED
      BY <3>1, <3>2, <1>1 DEF TaskOK, Unfetched, Covered, TasksOf, KindOf
  <2> QED
    BY <2>1, <2>2
<1>9. ASSUME NEW x \in Sources PROVE RowOK(x)'
  <2>1. RowOK(x) /\ rows' = rows /\ touched' = touched
    BY <1>1 DEF SyncInv
  <2>2. \A e \in TasksOf(x) : /\ tasks'[e].pc # "idle" /\ tasks'[e].src = x
                              /\ tasks'[e] = tasks[e]
    BY <1>1, <1>5 DEF TasksOf
  <2> QED
    BY <2>1, <2>2, <1>1 DEF RowOK, Covered, TasksOf, Unclosed
<1> QED
  BY <1>1, <1>6, <1>8, <1>9 DEF SyncInv

\* A restart loses every task at work.
LEMMA RestartStep ==
    ASSUME SyncInv, OcrTypeOK', Restart
    PROVE  SyncInv'
<1>1. tasks \in [Tasks -> TaskType] /\ faults' \in 0 .. MaxUpsets
  BY FaultCounted DEF SyncInv, TypeOK, Restart
<1>2. ASSUME NEW t \in Tasks PROVE TaskStays(t) /\ tasks'[t] \in TaskType
  <2>1. tasks[t] \in TaskType
    BY <1>1
  <2>2. tasks'[t] = IF Working(t) THEN [tasks[t] EXCEPT !.pc = "done", !.lost = TRUE]
                    ELSE tasks[t]
    BY DEF Restart
  <2>3. [tasks[t] EXCEPT !.pc = "done", !.lost = TRUE] \in TaskType
    BY <2>1 DEF TaskType, TaskSteps
  <2> QED
    BY <2>1, <2>2, <2>3 DEF TaskStays
<1>3. tasks' \in [Tasks -> TaskType]
  <2>1. tasks' = [t \in Tasks |-> tasks'[t]]
    BY DEF Restart
  <2> QED
    BY <2>1, <1>2
<1>4. edit' = NoEdit /\ UNCHANGED <<rows, records, head, handed, edits, touched>>
  BY DEF Restart
<1>5. NoEdit \in [src : Sources \cup {None}, status : Statuses]
  BY DEF NoEdit, Statuses
<1>6. TypeOK'
  BY <1>1, <1>3, <1>4, <1>5 DEF SyncInv, TypeOK
<1> QED
  BY <1>2, <1>4, <1>6, TasksStay DEF RowStays

\* What the other writers of the row put there: syncing only into a source that
\* counts as touched.
LEMMA EditSteps ==
    ASSUME SyncInv, OcrTypeOK',
           EditWrite \/ \E s \in Sources : EditRead(s) \/ FileIngest(s)
    PROVE  SyncInv'
<1>1. rows \in [Sources -> RowType] /\ edit \in [src : Sources \cup {None}, status : Statuses]
  BY DEF SyncInv, TypeOK, RowType
<1>2. UNCHANGED <<records, tasks, head, handed, faults>>
  BY DEF EditWrite, EditRead, FileIngest
<1>3. ASSUME NEW s \in Sources, NEW status \in Statuses, SetStatus(s, status),
             touched' = touched \cup {s}, edit' = edit \/ edit' = NoEdit,
             edits' \in 0 .. MaxUpsets
      PROVE  SyncInv'
  <2>1. PICK row \in RowType : /\ rows' = [rows EXCEPT ![s] = row]
                               /\ row.kind = rows[s].kind /\ row.fp = rows[s].fp
    <3> DEFINE row == [rows[s] EXCEPT !.status = status]
    <3>1. row \in RowType /\ row.kind = rows[s].kind /\ row.fp = rows[s].fp
      BY <1>1 DEF RowType
    <3>2. rows' = [rows EXCEPT ![s] = row]
      BY <1>3 DEF SetStatus
    <3> QED
      BY <3>1, <3>2
  <2>2. rows' \in [Sources -> RowType] /\ \A x \in Sources : RowStays(x)
    BY <1>1, <1>3, <2>1 DEF RowStays
  <2>3. edit' \in [src : Sources \cup {None}, status : Statuses]
    BY <1>1, <1>3 DEF NoEdit, Statuses
  <2>4. TypeOK'
    BY <1>2, <1>3, <2>2, <2>3 DEF SyncInv, TypeOK, RowType
  <2>5. edit' # NoEdit => edit'.src \in Sources
    BY <1>3 DEF SyncInv
  <2> QED
    BY <1>2, <1>3, <2>2, <2>4, <2>5, TasksStay DEF TaskStays
<1>4. CASE EditWrite
  BY <1>1, <1>3, <1>4 DEF EditWrite, SyncInv, TypeOK
<1>5. ASSUME NEW s \in Sources, FileIngest(s) PROVE SyncInv'
  <2>1. edits' \in 0 .. MaxUpsets
    BY <1>5 DEF FileIngest, SyncInv, TypeOK
  <2> QED
    BY <1>3, <1>5, <2>1 DEF FileIngest, Statuses
<1>6. ASSUME NEW s \in Sources, EditRead(s) PROVE SyncInv'
  <2>1. edits' \in 0 .. MaxUpsets /\ rows' = rows /\ touched' = touched
    BY <1>6 DEF EditRead, SyncInv, TypeOK
  <2>2. edit' \in [src : Sources \cup {None}, status : Statuses] /\ edit'.src \in Sources
    BY <1>1, <1>6 DEF EditRead, RowType
  <2>3. TypeOK'
    BY <1>2, <2>1, <2>2 DEF SyncInv, TypeOK
  <2> QED
    BY <1>2, <2>1, <2>2, <2>3, TasksStay DEF TaskStays, RowStays
<1> QED
  BY <1>4, <1>5, <1>6

\* A remote moves on, or the OCR instance and its users do.
LEMMA OtherSteps ==
    ASSUME SyncInv, OcrTypeOK',
           \/ \E s \in Sources : NewRevision(s)
           \/ \E t \in Tasks : OcrUser(t) \/ OcrFaulty(t)
           \/ Ec2 \/ UNCHANGED vars
    PROVE  SyncInv'
<1>1. /\ UNCHANGED <<rows, records, tasks, handed, edit, edits, touched>>
      /\ faults' \in 0 .. MaxUpsets
  BY FaultCounted DEF NewRevision, OcrUser, OcrFaulty, Ec2, vars, syncVars, SyncInv, TypeOK
<1>2. head' \in [Sources -> 1 .. MaxRev]
  <2>1. head \in [Sources -> 1 .. MaxRev]
    BY DEF SyncInv, TypeOK
  <2>2. CASE UNCHANGED head
    BY <2>1, <2>2
  <2>3. ASSUME NEW s \in Sources, NewRevision(s) PROVE head' \in [Sources -> 1 .. MaxRev]
    BY <2>1, <2>3, SyncAssumption DEF NewRevision
  <2> QED
    BY <2>2, <2>3 DEF OcrUser, OcrFaulty, Ec2, vars, syncVars
<1>3. TypeOK'
  BY <1>1, <1>2 DEF SyncInv, TypeOK
<1>4. edit' # NoEdit => edit'.src \in Sources
  BY <1>1 DEF SyncInv
<1> QED
  BY <1>1, <1>3, <1>4, TasksStay DEF TaskStays, RowStays

LEMMA InitSyncInv == Init => SyncInv
<1> SUFFICES ASSUME Init PROVE SyncInv
  OBVIOUS
<1>1. OcrTypeOK
  BY InitOcrInv DEF Init, OcrInv
<1>2. NewTask \in TaskType /\ NewTask.pc = "idle" /\ NewTask.got = "nothing" /\ NewTask.snap = 0
  <2>1. 0 \in 0 .. MaxRev
    BY SyncAssumption
  <2> QED
    BY <2>1 DEF NewTask, TaskType, TaskSteps
<1>3. /\ rows \in [Sources -> RowType]
      /\ \A s \in Sources : rows[s].fp = 0 /\ rows[s].status = "active"
  <2>1. PICK kind \in [Sources -> Kinds] :
            rows = [s \in Sources |-> [kind |-> kind[s], status |-> "active", fp |-> 0]]
    BY DEF Init
  <2> QED
    BY <2>1, SyncAssumption DEF RowType, Statuses
<1>4. NoEdit \in [src : Sources \cup {None}, status : Statuses]
  BY DEF NoEdit, Statuses
<1>5. TypeOK
  BY <1>1, <1>2, <1>3, <1>4, SyncAssumption DEF Init, TypeOK, RowType
<1>6. \A t \in Tasks : TaskOK(t)
  BY <1>2 DEF Init, TaskOK, Unfetched
<1>7. \A s \in Sources : RowOK(s)
  BY <1>3 DEF RowOK
<1> QED
  BY <1>5, <1>6, <1>7 DEF Init, SyncInv

LEMMA SyncInvStep ==
    ASSUME OcrInv, SyncInv, [Next]_vars
    PROVE  SyncInv'
<1>1. OcrTypeOK'
  BY NextIsOcrMove, OcrInvStep DEF OcrInv
<1>2. ASSUME NEW t \in Tasks, TaskStep(t) PROVE SyncInv'
  BY <1>1, <1>2, OpeningSteps, FetchStep, IngestStep, CloseStep, ClosingSteps DEF TaskStep
<1>3. ASSUME NEW t \in Tasks, Caught(t) \/ WriteSkipped(t) \/ Uncaught(t) PROVE SyncInv'
  BY <1>1, <1>3, FaultSteps
<1>4. ASSUME NEW t \in Tasks, NEW s \in Sources, NEW admin \in BOOLEAN, Trigger(t, s, admin)
      PROVE  SyncInv'
  BY <1>1, <1>4, TriggerStep
<1>5. CASE EditWrite \/ \E s \in Sources : EditRead(s) \/ FileIngest(s)
  BY <1>1, <1>5, EditSteps
<1>6. CASE Restart
  BY <1>1, <1>6, RestartStep
<1>7. CASE \/ \E s \in Sources : NewRevision(s)
           \/ \E t \in Tasks : OcrUser(t) \/ OcrFaulty(t)
           \/ Ec2 \/ UNCHANGED vars
  BY <1>1, <1>7, OtherSteps
<1> QED
  BY <1>2, <1>3, <1>4, <1>5, <1>6, <1>7 DEF Next

\* Every stage of every task agrees with its row, its record and what was handed
\* to ingestion, for any number of sources, concurrent syncs and failures.
THEOREM SyncInvariant == Spec => []SyncInv
<1>1. Init => OcrInv /\ SyncInv
  BY InitOcrInv, InitSyncInv DEF Init
<1>2. OcrInv /\ SyncInv /\ [Next]_vars => (OcrInv /\ SyncInv)'
  BY NextIsOcrMove, OcrInvStep, SyncInvStep
<1> QED
  BY <1>1, <1>2, PTL DEF Spec

\* A row that says syncing has a task at work on it, or lost one, or was written
\* by an update or a file ingest.
THEOREM SyncingExplained == Spec => []SyncingIsExplained
<1>1. SyncInv => SyncingIsExplained
  BY DEF SyncInv, RowOK, Unclosed, SyncingIsExplained
<1> QED
  BY <1>1, SyncInvariant, PTL

\* A task at its end has settled its record, which tells the truth of what it
\* handed on.
THEOREM RecordsSettled == Spec => []RecordsSettle
<1>1. SyncInv => RecordsSettle
  BY DEF SyncInv, TaskOK, RecordsSettle
<1> QED
  BY <1>1, SyncInvariant, PTL

\* Whatever syncs run side by side, and whatever failed before, a revision is
\* skipped only after its documents were handed to ingestion or found to be none.
THEOREM SkippedHandedOn == Spec => []SkippedWasHandedOn
<1>1. SyncInv => SkippedWasHandedOn
  BY DEF SyncInv, TaskOK, RowOK, SkippedWasHandedOn
<1> QED
  BY <1>1, SyncInvariant, PTL

\* Only the close of a sync saves a fingerprint, the one that sync fetched.
LEMMA OnlyCloseSaves ==
    ASSUME SyncInv, Next, NEW s \in Sources, rows'[s].fp # rows[s].fp
    PROVE  \E t \in Tasks : /\ Close(t) /\ tasks[t].src = s /\ rows'[s].fp = tasks[t].rev
<1>1. rows \in [Sources -> RowType]
  BY DEF SyncInv, TypeOK, RowType
<1>2. ASSUME NEW x, NEW status, SetStatus(x, status) PROVE FALSE
  <2>1. CASE x = s
    <3>1. rows'[s] = [rows[s] EXCEPT !.status = status]
      BY <1>1, <1>2, <2>1 DEF SetStatus
    <3> QED
      BY <1>1, <3>1 DEF RowType
  <2>2. CASE x # s
    BY <1>1, <1>2, <2>2 DEF SetStatus
  <2> QED
    BY <2>1, <2>2
<1>3. rows' # rows
  OBVIOUS
<1>4. ~EditWrite /\ ~Restart /\ ~Ec2
  BY <1>2, <1>3 DEF EditWrite, Restart, Ec2, syncVars
<1>5. \A x \in Sources : ~EditRead(x) /\ ~FileIngest(x) /\ ~NewRevision(x)
  BY <1>2, <1>3 DEF EditRead, FileIngest, NewRevision
<1>6. \A t \in Tasks : /\ ~OcrUser(t) /\ ~OcrFaulty(t)
                        /\ ~Caught(t) /\ ~WriteSkipped(t) /\ ~Uncaught(t)
                        /\ \A x \in Sources, admin \in BOOLEAN : ~Trigger(t, x, admin)
  BY <1>3 DEF OcrUser, OcrFaulty, syncVars, Caught, WriteSkipped, Uncaught, Trigger
<1>7. ASSUME NEW t \in Tasks, TaskStep(t) PROVE Close(t)
  <2>1. ~Mark(t) /\ ~Report(t)
    BY <1>2 DEF Mark, Report
  <2>2. ~Begin(t) /\ ~BeginConfluence(t) /\ ~OcrReady(t) /\ ~Fetch(t) /\ ~Ingest(t)
    BY <1>3 DEF Begin, BeginConfluence, OcrReady, Fetch, Ingest
  <2>3. ~Record(t) /\ ~ReportRecord(t) /\ ~Finally(t)
    BY <1>3 DEF Record, ReportRecord, Finally
  <2> QED
    BY <1>7, <2>1, <2>2, <2>3 DEF TaskStep
<1>8. PICK t \in Tasks : Close(t)
  BY <1>4, <1>5, <1>6, <1>7 DEF Next
<1>9. rows' = [rows EXCEPT ![tasks[t].src] = [@ EXCEPT !.status = "active", !.fp = tasks[t].rev]]
  BY <1>2, <1>3, <1>8 DEF Close
<1>10. tasks[t].src = s
  BY <1>1, <1>9
<1>11. rows'[s] = [rows[s] EXCEPT !.status = "active", !.fp = tasks[t].rev]
  BY <1>1, <1>9, <1>10
<1>12. rows'[s].fp = tasks[t].rev
  BY <1>1, <1>11 DEF RowType
<1> QED
  BY <1>8, <1>10, <1>12

\* A fingerprint goes back only at the close of a sync that another one of the
\* same source overtook.
THEOREM BackOnlyOvertaken == Spec => FingerprintBackOnlyOvertaken
<1> DEFINE Overtaken == \A s \in Sources : rows'[s].fp < rows[s].fp =>
                            \E t, e \in TasksOf(s) :
                                /\ t # e
                                /\ tasks[t].pc = "close" /\ tasks'[t].pc # "close"
                                /\ tasks[t].rev < tasks[e].rev
<1>1. ASSUME SyncInv, Next, NEW s \in Sources, rows'[s].fp < rows[s].fp
      PROVE  \E t, e \in TasksOf(s) : /\ t # e
                                      /\ tasks[t].pc = "close" /\ tasks'[t].pc # "close"
                                      /\ tasks[t].rev < tasks[e].rev
  <2>1. rows[s].fp \in 0 .. MaxRev /\ tasks \in [Tasks -> TaskType]
    BY <1>1 DEF SyncInv, TypeOK
  <2>2. CASE rows'[s].fp = rows[s].fp
    BY <1>1, <2>1, <2>2
  <2>3. CASE rows'[s].fp # rows[s].fp
    <3>1. PICK t \in Tasks : Close(t) /\ tasks[t].src = s /\ rows'[s].fp = tasks[t].rev
      BY <1>1, <2>3, OnlyCloseSaves
    <3>2. tasks[t] \in TaskType /\ tasks[t].pc = "close" /\ t \in TasksOf(s)
      BY <2>1, <3>1 DEF Close, TasksOf
    <3>3. tasks'[t].pc # "close"
      <4>1. PICK pc \in {"report", "record", "done"} : Goto(t, pc)
        BY <3>1 DEF Close, AfterClose
      <4>2. tasks'[t] = [tasks[t] EXCEPT !.pc = pc]
        BY <2>1, <4>1 DEF Goto
      <4> QED
        BY <3>2, <4>2 DEF TaskType
    <3>4. rows[s].fp # 0
      BY <1>1, <2>1, <3>1, <3>2 DEF TaskType
    <3>5. PICK e \in TasksOf(s) : tasks[e].rev = rows[s].fp
      BY <1>1, <3>4 DEF SyncInv, RowOK
    <3>6. tasks[t].rev < tasks[e].rev /\ tasks[t].rev \in Int
      BY <1>1, <3>1, <3>2, <3>5 DEF TaskType
    <3> QED
      BY <3>2, <3>3, <3>5, <3>6
  <2> QED
    BY <2>2, <2>3
<1>2. SyncInv /\ [Next]_vars => [Overtaken]_vars
  BY <1>1
<1>3. [][Overtaken]_vars => FingerprintBackOnlyOvertaken
  BY PTL DEF FingerprintBackOnlyOvertaken
<1> QED
  BY <1>2, <1>3, SyncInvariant, PTL DEF Spec

=============================================================================
