----------------------------- MODULE ModelSlot -----------------------------
(***************************************************************************)
(* What an edge machine promises about its model, without directories,      *)
(* stages or renames: there is one model to load and at most one earlier    *)
(* model to go back to.  A replacement is one step, by a model that was     *)
(* verified and of another version, and what it replaced is what going back *)
(* brings.  The server only ever opens the model there is.  A run that is   *)
(* cut short may leave less.                                                *)
(***************************************************************************)
CONSTANTS
    Versions,    \* model versions the centre may publish
    Unsigned     \* those whose manifest carries no sha256

VARIABLES
    slot,    \* the model to load
    spare,   \* the one it replaced
    opened,  \* the bytes the server is loading
    hurt     \* a replacement or a restore was once cut short

svars == <<slot, spare, opened, hurt>>

NoModel == [gguf |-> "none", manifest |-> "none"]

\* The bytes that pass for a version: without a checksum any complete file does.
Passing(v) == {v} \cup (IF v \in Unsigned THEN {"garbled"} ELSE {})

\* What a removal that is cut short may leave of a model.
Half(m) == {m, NoModel, [m EXCEPT !.manifest = "none"]}

Init ==
    /\ slot = NoModel /\ spare = NoModel
    /\ opened = "none"
    /\ hurt = FALSE

\* The spare is given up before a replacement, and never the last model.
Forget ==
    /\ spare # NoModel
    /\ slot # NoModel \/ hurt
    /\ spare' = NoModel
    /\ UNCHANGED <<slot, opened, hurt>>

Replace ==
    /\ spare = NoModel
    /\ \E v \in Versions \ {slot.manifest} : \E gguf \in Passing(v) :
           slot' = [gguf |-> gguf, manifest |-> v]
    /\ spare' = slot
    /\ UNCHANGED <<opened, hurt>>

GoBack ==
    /\ spare # NoModel
    /\ slot' = spare
    /\ spare' = NoModel
    /\ UNCHANGED <<opened, hurt>>

\* The server begins to load the model, finds none, or is done.
Load ==
    /\ opened' \in {slot.gguf, "none"}
    /\ UNCHANGED <<slot, spare, hurt>>

\* A cut leaves the slot, the spare or neither in pieces, or takes the model out
\* of the slot and leaves it as the spare.
Cut ==
    /\ hurt' = TRUE
    /\ \/ slot' \in Half(slot) /\ UNCHANGED spare
       \/ spare' \in Half(spare) /\ UNCHANGED slot
       \/ spare = NoModel /\ slot' = NoModel /\ spare' = slot
    /\ UNCHANGED opened

Next == Forget \/ Replace \/ GoBack \/ Load \/ Cut

Spec == Init /\ [][Next]_svars

---------------------------------------------------------------------------

\* A machine that has a model always has one, as long as nothing was cut short.
NeverEmptied == [][slot # NoModel /\ ~hurt' => slot' # NoModel]_svars
=============================================================================
