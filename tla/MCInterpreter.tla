----------------------------- MODULE MCInterpreter -----------------------------
(* A placement with a row, a visit that recycles and goes on to a row it   *)
(* can no longer commit, a hold; a rule that walks home and goes on, or    *)
(* builds and jumps; a tail that holds and one that patrols.               *)
EXTENDS Interpreter
CONSTANTS site, post, core

Step(action, at, rows, ms, fail, to) ==
  [action |-> action, at |-> at, rows |-> rows, ms |-> ms, hold |-> 1, fail |-> fail, to |-> to]
Rule(body, resume, to) ==
  [body |-> body, resume |-> resume, to |-> to, maxFires |-> 1, cooldown |-> 1]

Builder ==
  [route |-> <<Step("place", site, <<"edit">>, 2, "skip", 0),
               Step("interface", NoPlace, <<"recycle", "edit">>, 0, "jump", 3),
               Step("hold", NoPlace, <<>>, 0, "skip", 0)>>,
   rules |-> <<Rule(<<Step("move", Home, <<>>, 0, "skip", 0)>>, "continue", 0)>>,
   posture |-> "hold", tail |-> <<post>>, deaths |-> 0]

Patroller ==
  [route |-> <<Step("move", post, <<>>, 0, "skip", 0),
               Step("wait", NoPlace, <<>>, 2, "jump", 1)>>,
   rules |-> <<Rule(<<Step("place", site, <<>>, 0, "jump", 1)>>, "jump", 1)>>,
   posture |-> "patrol", tail |-> <<Home, post>>, deaths |-> 1]

Playbooks == {Builder, Patroller}
=============================================================================
