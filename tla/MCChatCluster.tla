--------------------------- MODULE MCChatCluster ---------------------------
(***************************************************************************)
(* ChatCluster for TLC.  The configurations choose the instance; servers,  *)
(* users, connections and messages are interchangeable in every            *)
(* definition, so the safety runs use their symmetry.                      *)
(***************************************************************************)
EXTENDS ServiceRefinement, TLC

(* Values of MaxOutbox.  With FirstTwice connections are told apart, so a run *)
(* with it uses SymmetryOfUsers.                                              *)
Once == [c \in Conns |-> 1]
Twice == [c \in Conns |-> 2]
Thrice == [c \in Conns |-> 3]

FirstConn == CHOOSE c \in Conns : TRUE
FirstTwice == [Once EXCEPT ![FirstConn] = 2]

SymmetryOfUsers == Permutations(Users) \cup Permutations(Msgs)
Symmetry == SymmetryOfUsers \cup Permutations(Servers) \cup Permutations(Conns)

(* TLC cannot use symmetry sets for liveness.  That servers are               *)
(* interchangeable is used by hand: one connection is placed on one server.   *)
PlacedInit == Init /\ conn[FirstConn].server = CHOOSE s \in Servers : TRUE
PlacedFairSpec == PlacedInit /\ [][Next]_vars /\ Fairness

(* At most one fault in a behaviour, of whichever kind. *)
OneFault == crashes + db_faults <= 1
=============================================================================
