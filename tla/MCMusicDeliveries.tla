------------------------ MODULE MCMusicDeliveries ------------------------
(* A small instance of MusicDeliveries for TLC. *)
EXTENDS MusicDeliveries

Present(u) == ~At(u, "IDLE") \/ u \in objects \cup deliveries \cup removing

\* Beside a single-request upload, which no worker deals with, one worker is enough.
OneWorkerBesideUploads ==
    (\E u \in Uploads : Present(u)) =>
        \A w \in Workers : w # (CHOOSE x \in Workers : TRUE) => At(w, "IDLE")
=============================================================================
