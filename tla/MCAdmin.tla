------------------------------ MODULE MCAdmin ------------------------------
(* Model-checking instances of Admin; the .cfg files choose among them.      *)
EXTENDS Admin, TLC

CONSTANTS a1, a2, a3, k1, k2, k3, c1, c2

Kind(kind) == [NoOp EXCEPT !.kind = kind]

Updates == {[Kind("update") EXCEPT !.keys = {k1}, !.active = a, !.over = o] : a \in {"keep", "yes", "no"}, o \in {"keep", "yes"}}
             \cup {[Kind("update") EXCEPT !.keys = {k1}, !.owner = c1],
                   [Kind("delete") EXCEPT !.keys = {k1}, !.off = TRUE],
                   [Kind("purge") EXCEPT !.keys = {k1}]}
Batches == {[Kind("batch") EXCEPT !.keys = {k1, k2}, !.cool = TRUE, !.over = "no"],
            [Kind("batch") EXCEPT !.keys = {k1, k2}, !.active = "no"],
            [Kind("batch") EXCEPT !.keys = {k1, k3}, !.over = "yes", !.test = TRUE],
            Kind("reset_quota")}
Imports == {[Kind("import") EXCEPT !.keys = {k1, k3}, !.owner = c1],
            [Kind("create") EXCEPT !.keys = {k3}, !.active = "yes"]}
ClientOps == {[Kind("create_client") EXCEPT !.clients = {c1}],
              [Kind("update_client") EXCEPT !.clients = {c1}, !.active = "yes"],
              [Kind("delete_client") EXCEPT !.clients = {c1}, !.off = TRUE],
              [Kind("batch_clients") EXCEPT !.clients = {c1, c2}, !.active = "no"],
              [Kind("purge_client") EXCEPT !.clients = {c1}]}

AllOps == Updates \cup Batches \cup Imports \cup ClientOps

Symmetry == Permutations(Sessions)
=============================================================================
