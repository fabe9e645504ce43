---------------------------- MODULE MCReconciler ----------------------------
(***************************************************************************)
(* Small instances of Reconciler.                                          *)
(***************************************************************************)
EXTENDS Reconciler, TLC

Spec1(id) == [id |-> id, v |-> 1]
Spec2(id) == [id |-> id, v |-> 2]

\* One user.
OneKindOf == "alice" :> "User"
OneNames == DOMAIN OneKindOf
OneSpecsOf == "alice" :> {Spec1("a"), Spec2("a")}

\* A user that is edited, beside one whose id is empty.
BadKindOf == "alice" :> "User" @@ "bad" :> "User"
BadNames == DOMAIN BadKindOf
BadSpecsOf == "alice" :> {Spec1("a"), Spec2("a")} @@ "bad" :> {Spec1("")}

\* Two users.
TwoKindOf == "alice" :> "User" @@ "bob" :> "User"
TwoSpecsOf == "alice" :> {Spec1("a")} @@ "bob" :> {Spec1("b")}
TwoNames == DOMAIN TwoKindOf

\* A user whose id is edited.
RenameSpecsOf == "alice" :> {Spec1("a"), Spec1("b")}

=============================================================================
