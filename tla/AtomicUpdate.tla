---------------------------- MODULE AtomicUpdate ----------------------------
(***************************************************************************)
(* What a firmware update promises, whatever happens on the way: the node  *)
(* runs whole images only, changes from one to another at a boot only, and *)
(* only to an image that an authorised request has named.                  *)
(***************************************************************************)
CONSTANTS
    Images,      \* whole firmware images
    Factory,     \* the image the node was delivered with
    Nothing      \* no image waits for the next boot

VARIABLES
    running,     \* the image the node executes
    candidate,   \* the image the next boot will start, if there is one
    named        \* images that authorised requests have announced

updateVars == <<running, candidate, named>>

UpdateInit == running = Factory /\ candidate = Nothing /\ named = {}

(* A request with the right source and key announces an image.              *)
Name(image) ==
    /\ named' = named \cup {image}
    /\ UNCHANGED <<running, candidate>>

(* Its upload was complete and verified.                                    *)
Install(image) ==
    /\ image \in named
    /\ candidate' = image
    /\ UNCHANGED <<running, named>>

(* A later upload begins to overwrite what waits for the boot.              *)
Discard ==
    /\ candidate # Nothing
    /\ candidate' = Nothing
    /\ UNCHANGED <<running, named>>

Boot ==
    /\ candidate # Nothing
    /\ running' = candidate /\ candidate' = Nothing
    /\ UNCHANGED named

UpdateNext ==
    \/ \E image \in Images : Name(image) \/ Install(image)
    \/ Discard \/ Boot

UpdateSpec == UpdateInit /\ [][UpdateNext]_updateVars
=============================================================================
