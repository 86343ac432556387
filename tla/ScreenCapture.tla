--------------------------- MODULE ScreenCapture ---------------------------
(***************************************************************************)
(* The resources of the X11 screen grabber                                 *)
(* (client/src/capture/screen_capture.cpp).  Only one thread at a time     *)
(* uses it, so each call is one action, except Grab, which holds an image  *)
(* while it converts it.  held is what exists outside the process's heap   *)
(* or has to be freed by hand:                                             *)
(*   display, ximage   what impl_->display and impl_->ximage point to      *)
(*   segment, mapping, attached   the shared segment (shmget), its mapping *)
(*                     (shmat), and its attachment at the server           *)
(*   frame             the image of one XGetImage call                     *)
(***************************************************************************)
VARIABLES
  held,
  useShm,         \* impl_->use_shm
  open            \* open_

Shm       == {"ximage", "segment", "mapping", "attached"}
Resources == Shm \cup {"display", "frame"}

CaptureTypeOK == held \subseteq Resources /\ {useShm, open} \subseteq BOOLEAN

CaptureInit == held = {} /\ useShm = FALSE /\ open = FALSE

-----------------------------------------------------------------------------
(* Open after XOpenDisplay succeeded: no shared memory extension or no     *)
(* image; or XShmAttach returns 0, and the image is destroyed but not the  *)
(* segment and its mapping; or all of it.                                  *)
Open ==
  /\ open' = TRUE
  /\ \/ useShm' = FALSE /\ held' = {"display"}
     \/ useShm' = FALSE /\ held' = {"display", "segment", "mapping"}
     \/ useShm' = TRUE /\ held' = {"display"} \cup Shm

(* The results of shmget and shmat are not looked at, and the X server     *)
(* refuses an attachment it cannot make with an error of its own, raised   *)
(* in XSync, for which Xlib ends the process.  A segment outlives it.      *)
OpenKilled == held' \in {{}, {"segment"}} /\ UNCHANGED <<useShm, open>>

(* Grab: XShmGetImage into the shared image, or XGetImage; then the        *)
(* conversion, after which XGetImage's image is destroyed.                 *)
GrabImage ==
  /\ open
  /\ held' = IF useShm THEN held ELSE held \cup {"frame"}
  /\ UNCHANGED <<useShm, open>>

ConvertImage == held' = held \ {"frame"} /\ UNCHANGED <<useShm, open>>

(* Mutant: the segment is detached but not removed (IPC_RMID).             *)
ReleasedUnremoved == Shm \ {"segment"}

(* Impl::Teardown, and Close, which does it once.                          *)
Released == Shm

Teardown ==
  LET images == IF useShm /\ "ximage" \in held THEN Released ELSE {"ximage"}
  IN  held' = held \ (images \cup {"display"})

Close == open' = FALSE /\ UNCHANGED useShm
         /\ IF open THEN Teardown ELSE UNCHANGED held
=============================================================================
