---------------------------- MODULE OcrInstance ----------------------------
(***************************************************************************)
(* The PaddleOCR EC2 instance that Confluence syncs start and stop on demand *)
(* (api/routes/data_source_sync.py); the command line uses it the same way    *)
(* (cli/ingest.py, _ocr_lifecycle).                                           *)
(*                                                                         *)
(* Each user looks at the state of the instance, starts it or takes it as    *)
(* it is, publishes the address it found in Redis, works, and stops the      *)
(* instance when it had been given an address.  Nobody counts the users.     *)
(* EC2 and Redis are external.                                               *)
(***************************************************************************)
EXTENDS Integers

CONSTANTS
    Users,      \* syncs, each of which uses the instance at most once
    Static,     \* whether PADDLEOCR_API_URL gives a fixed address
    MaxBoots    \* bound on the boots of the instance

ASSUME OcrAssumption == MaxBoots \in Nat /\ Static \in BOOLEAN

VARIABLES
    inst,       \* state of the instance
    boots,      \* boots so far: each brings a new public address
    url,        \* the address in Redis
    users       \* what each user is at

ocrVars == <<inst, boots, url, users>>

None == 0
Fixed == MaxBoots + 1
Addresses == None .. Fixed

UserSteps == {"off", "look", "wait", "boot", "poll", "health", "publish",
              "work", "stop", "done", "dead"}

\* own: the user boots the instance itself; found: the address it was given;
\* told: it put that address into Redis; alone: no other user has been at work
\* since it looked; left: it gave up on an instance it had started, knowing it or
\* not, or its stop failed.
NewUser == [pc |-> "off", own |-> FALSE, found |-> None, told |-> FALSE,
            alone |-> TRUE, left |-> FALSE]

UserType == [pc : UserSteps, own : BOOLEAN, found : Addresses, told : BOOLEAN,
             alone : BOOLEAN, left : BOOLEAN]

OcrTypeOK ==
    /\ inst \in {"stopped", "pending", "running", "stopping"}
    /\ boots \in 0 .. MaxBoots
    /\ url \in Addresses
    /\ users \in [Users -> UserType]

OcrInit ==
    /\ inst = "stopped"
    /\ boots = 0
    /\ url = None
    /\ users = [u \in Users |-> NewUser]

AtWork(u) == users[u].pc \notin {"off", "done", "dead"}

\* The address the instance answers at now.
Live == IF inst = "running" THEN boots ELSE None

Become(u, user) == users' = [users EXCEPT ![u] = user]

-----------------------------------------------------------------------------
(* _start_ocr_instance *)

\* The sync, or the command line, begins.
Enter(u) ==
    /\ users[u].pc = "off"
    /\ LET others == {v \in Users : AtWork(v)}
       IN  users' = [v \in Users |->
                        IF v = u THEN [NewUser EXCEPT !.pc = "look", !.alone = (others = {})]
                        ELSE IF v \in others THEN [users[v] EXCEPT !.alone = FALSE]
                        ELSE users[v]]
    /\ UNCHANGED <<inst, boots, url>>

\* With a fixed address configured that one is taken, and otherwise none: the
\* user goes on without OCR.
FallenBack(user) ==
    IF Static THEN [user EXCEPT !.pc = "publish", !.found = Fixed]
    ELSE [user EXCEPT !.pc = "work"]

Look(u) ==
    /\ users[u].pc = "look"
    /\ Become(u, IF inst = "running" THEN [users[u] EXCEPT !.pc = "health", !.found = boots]
                 ELSE IF inst = "stopped" THEN [users[u] EXCEPT !.pc = "boot", !.own = TRUE]
                 ELSE IF inst = "stopping" THEN [users[u] EXCEPT !.pc = "wait", !.own = TRUE]
                 ELSE FallenBack(users[u]))
    /\ UNCHANGED <<inst, boots, url>>

\* describe_instances fails: the state reads as the empty string.
LookFails(u) ==
    /\ users[u].pc = "look"
    /\ Become(u, FallenBack(users[u]))
    /\ UNCHANGED <<inst, boots, url>>

\* The wait ends when the instance has stopped, and after its last retry anyway.
Wait(u) ==
    /\ users[u].pc = "wait"
    /\ Become(u, [users[u] EXCEPT !.pc = "boot"])
    /\ UNCHANGED <<inst, boots, url>>

\* start_instances: nothing to do for an instance that is starting or running,
\* refused for one that is stopping.
Boot(u) ==
    /\ users[u].pc = "boot"
    /\ \/ /\ inst = "stopped" /\ boots < MaxBoots
          /\ inst' = "pending"
          /\ Become(u, [users[u] EXCEPT !.pc = "poll"])
       \/ /\ inst \in {"pending", "running"}
          /\ Become(u, [users[u] EXCEPT !.pc = "poll"])
          /\ UNCHANGED inst
       \/ /\ inst = "stopping"
          /\ Become(u, [users[u] EXCEPT !.pc = "work"])
          /\ UNCHANGED inst
    /\ UNCHANGED <<boots, url>>

\* start_instances fails, or it is carried out and its answer does not arrive.
BootFails(u) ==
    /\ users[u].pc = "boot"
    /\ \/ Become(u, [users[u] EXCEPT !.pc = "work"]) /\ UNCHANGED inst
       \/ /\ inst = "stopped" /\ boots < MaxBoots
          /\ inst' = "pending"
          /\ Become(u, [users[u] EXCEPT !.pc = "work", !.left = TRUE])
    /\ UNCHANGED <<boots, url>>

\* The instance runs: its address is read.
Poll(u) ==
    /\ users[u].pc = "poll"
    /\ inst = "running"
    /\ Become(u, [users[u] EXCEPT !.pc = "health", !.found = boots])
    /\ UNCHANGED <<inst, boots, url>>

\* The OCR server answers at the address.
Health(u) ==
    /\ users[u].pc = "health"
    /\ users[u].found = Live
    /\ Become(u, [users[u] EXCEPT !.pc = "publish"])
    /\ UNCHANGED <<inst, boots, url>>

\* No running state, no address or no health in time.  A user that found the
\* instance running falls back to the fixed address; one that has just started
\* it gives up on it and leaves it as it is.
GiveUp(u) ==
    /\ users[u].pc \in {"poll", "health"}
    /\ LET user == [users[u] EXCEPT !.found = None]
       IN  Become(u, IF user.own THEN [user EXCEPT !.pc = "work", !.left = TRUE]
                     ELSE FallenBack(user))
    /\ UNCHANGED <<inst, boots, url>>

Publish_Once(u) ==  \* mutant
    /\ users[u].pc = "publish"
    /\ url' = IF url = None THEN users[u].found ELSE url
    /\ Become(u, [users[u] EXCEPT !.pc = "work", !.told = TRUE])
    /\ UNCHANGED <<inst, boots>>

\* set_paddleocr_url; a failure is only logged.
Publish(u) ==
    /\ users[u].pc = "publish"
    /\ url' = users[u].found
    /\ Become(u, [users[u] EXCEPT !.pc = "work", !.told = TRUE])
    /\ UNCHANGED <<inst, boots>>

PublishFails(u) ==
    /\ users[u].pc = "publish"
    /\ Become(u, [users[u] EXCEPT !.pc = "work"])
    /\ UNCHANGED <<inst, boots, url>>

-----------------------------------------------------------------------------
(* _stop_ocr_instance *)

Leave_AtOnce(u) ==  \* mutant
    /\ users[u].pc = "work"
    /\ Become(u, [users[u] EXCEPT !.pc = "done"])
    /\ UNCHANGED <<inst, boots, url>>

\* The finally clause: whoever was given an address stops the instance, the
\* fixed address included.
Leave(u) ==
    /\ users[u].pc = "work"
    /\ Become(u, [users[u] EXCEPT !.pc = IF users[u].found = None THEN "done" ELSE "stop"])
    /\ UNCHANGED <<inst, boots, url>>

Stop(u) ==
    /\ users[u].pc = "stop"
    /\ inst' = IF inst = "running" THEN "stopping" ELSE inst
    /\ Become(u, [users[u] EXCEPT !.pc = "done", !.left = (inst = "pending")])
    /\ UNCHANGED <<boots, url>>

\* The error is logged: the instance stays up.  (One that is carried out, and whose
\* answer does not arrive, is a Stop.)
StopFails(u) ==
    /\ users[u].pc = "stop"
    /\ Become(u, [users[u] EXCEPT !.pc = "done", !.left = TRUE])
    /\ UNCHANGED <<inst, boots, url>>

\* EC2
Started ==
    /\ inst = "pending"
    /\ inst' = "running"
    /\ boots' = boots + 1
    /\ UNCHANGED <<url, users>>

Stopped ==
    /\ inst = "stopping"
    /\ inst' = "stopped"
    /\ UNCHANGED <<boots, url, users>>

OcrStep(u) ==
    \/ Look(u) \/ Wait(u) \/ Boot(u) \/ Poll(u) \/ Health(u) \/ GiveUp(u)
    \/ Publish(u) \/ Stop(u)

OcrFault(u) == LookFails(u) \/ BootFails(u) \/ PublishFails(u) \/ StopFails(u)

-----------------------------------------------------------------------------
(* What is checked *)

(***************************************************************************)
(* A user of the OCR instance beside whom nobody else used it works with the  *)
(* instance running at the address it was given, and with that address in     *)
(* Redis when Redis took it, however earlier users left the instance          *)
(* (_start_ocr_instance_inner, set_paddleocr_url).                            *)
(***************************************************************************)
AloneIsServed ==
    \A u \in Users :
        (users[u].pc = "work" /\ users[u].alone /\ users[u].found \notin {None, Fixed}) =>
            /\ users[u].found = Live
            /\ users[u].told => url = users[u].found

(***************************************************************************)
(* When no user is at work the instance is up only because one gave up on it  *)
(* after starting it, did not learn that it had, could not stop it, or died:  *)
(* every other way through the sync's finally clause stops what it started.    *)
(***************************************************************************)
UpIsExplained ==
    ((\A u \in Users : ~ AtWork(u)) /\ inst \in {"pending", "running"}) =>
        \E u \in Users : users[u].left \/ users[u].pc = "dead"

(***************************************************************************)
(* docs/CONFLUENCE_CRAWLER.md: the instance is stopped by itself after the    *)
(* sync.  cli/ingest.py: where a stop fails, the instance's own boot script   *)
(* shuts it down.  So once all users have ended it goes down.                  *)
(***************************************************************************)
InstanceGoesDown == (\A u \in Users : users[u].pc \in {"done", "dead"}) ~> inst = "stopped"

=============================================================================
