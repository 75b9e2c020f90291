---------------------------- MODULE BookContract ----------------------------
(***************************************************************************)
(* What the market-data side promises to everyone who reads a published    *)
(* view (Manager.Snapshot): either the view is withdrawn, or it shows the  *)
(* venue's book; and its sequence number never goes back, across           *)
(* withdrawals too.  A venue whose snapshots are partial may be shown      *)
(* without the levels its last snapshot left out, until it updates them.   *)
(***************************************************************************)
EXTENDS Integers

CONSTANT Partial    \* the venue's snapshots leave levels out

VARIABLES image,    \* the venue's history: sequence number -> depth
          view      \* [ready, seq, depth, anchor]: anchor is the number of the
                    \* snapshot the view rests on; an unready depth is free

Init == view.ready = FALSE /\ view.seq = 0 /\ view.anchor = 0

\* The venue emits images under new, higher numbers.
Market ==
    /\ UNCHANGED view
    /\ DOMAIN image \subseteq DOMAIN image'
    /\ \A s \in DOMAIN image : image'[s] = image[s]
    /\ \A s \in DOMAIN image, t \in DOMAIN image' \ DOMAIN image : s < t

\* Readers may no longer trade on the view.
Withdraw ==
    /\ UNCHANGED image
    /\ ~view'.ready
    /\ view'.seq >= view.seq
    /\ view'.anchor = view.anchor

\* A level of a partial view that nothing is known of since its snapshot.
LeftOut(v, l) == Partial /\ v.depth[l] = 0 /\ image[v.seq][l] = image[v.anchor][l]

\* Readers get a view that is not older than the last one.
Publish ==
    /\ UNCHANGED image
    /\ view'.ready
    /\ view'.seq \in DOMAIN image /\ view'.anchor \in DOMAIN image
    /\ view'.anchor \in {view.anchor, view'.seq}
    /\ DOMAIN view'.depth = DOMAIN image[view'.seq]
    /\ \A l \in DOMAIN view'.depth :
          view'.depth[l] = image[view'.seq][l] \/ LeftOut(view', l)
    /\ view'.seq >= view.seq

Spec == Init /\ [][Market \/ Withdraw \/ Publish]_<<image, view>>
=============================================================================
