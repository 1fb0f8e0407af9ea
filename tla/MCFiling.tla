------------------------------ MODULE MCFiling ------------------------------
(* Filing on small instances: one operator.                             *)
EXTENDS FilingRefinement, FiniteSetsExt, TLC

(* Reviewers are interchangeable, and so are the slots a request runs in.  *)
Symmetry == {r @@ s : r \in Permutations(Reviewers), s \in Permutations(Slots)}

(* The operator has not yet earned the fast track, or it has.              *)
CONSTANTS e1, p1, p2
Newcomer == [e \in Entities |-> 0]
Trusted  == [e \in Entities |-> FastTrackStreak]

(* A run may be of several scenes, explored side by side.  A scene is the  *)
(* returns that are filed in it, the periods whose status may change,      *)
(* whether answers are saved, and bounds on the review steps and on the    *)
(* streak.                                                                 *)
CONSTANT Scenes
Scene(returns, changing, saves, steps, count) ==
  [returns |-> returns, changing |-> changing, saves |-> saves, steps |-> steps, count |-> count]

Versioned   == {e1} \X {p1} \X Versions
TwoVersions == Scene(Versioned, {p1}, TRUE, 4, 1)
TwoPeriods  == Scene({e1} \X {p1, p2} \X {1}, {}, TRUE, 4, 2)
Serial      == {TwoVersions, TwoPeriods}

Racing      == Scene(Versioned, {}, FALSE, 3, 1)
Deleting    == Scene(Versioned, {p1}, FALSE, 1, 1)
Saving      == Scene({e1} \X {p1} \X {1}, {}, TRUE, 1, 1)
Races       == {Racing, Deleting, Saving}

OneReturn   == {Scene({e1} \X {p1} \X {1}, {}, TRUE, 4, 1)}

StepsTaken == FoldSet(LAMBDA k, n : Len(ret[k].trail) + n, 0, Returns)

Within(scene) ==
  /\ \A p \in Periods \ scene.changing : period[p] = [status |-> "OPEN", deleted |-> FALSE]
  /\ scene.changing = {} => \A e \in Entities : active[e]
  /\ \A s \in Slots : "ret" \in DOMAIN req[s] => req[s].ret \in scene.returns
  /\ \A k \in Returns \ scene.returns : ~Exists(k)
  /\ \A e \in Entities : streak[e] <= scene.count
  /\ ~scene.saves => /\ \A k \in Returns : {ret[k].answers, ret[k].signed} \subseteq {NoAnswers, Unsigned}
                     /\ \A s \in Slots : req[s].pc # "writeValues"
  /\ StepsTaken <= scene.steps

Bounded == \E scene \in Scenes : Within(scene)
=============================================================================
