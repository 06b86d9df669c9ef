---------------------------- MODULE MCSessionEnds ----------------------------
(***************************************************************************)
(* Two scenes of Sessions in one run, chosen at the start: "revocations",  *)
(* where requests revoke several sessions and nobody renews one, and       *)
(* "renewals", where requests renew and revoke one session.                *)
(***************************************************************************)
EXTENDS Sessions

CONSTANTS Only,     \* the session of scene "renewals"
          Revoker   \* and the slot that revokes it

VARIABLE scene

SceneInit == Init /\ scene \in {"revocations", "renewals"}

SceneNext ==
    \/ /\ scene = "revocations" /\ Next /\ UNCHANGED scene
       /\ UNCHANGED <<renewal, status>>
       /\ \A s \in Session : lastId'[s] < MaxId
    \/ /\ scene = "renewals" /\ Next /\ UNCHANGED scene
       /\ \A s \in Session \ {Only} : row'[s] = row[s] /\ status'[s] = status[s]
       /\ \A v \in Revocation \ {Revoker} : revocation'[v] = revocation[v]

SceneSpec == SceneInit /\ [][SceneNext]_<<vars, scene>> /\ Fairness

=============================================================================
