---------------------------- MODULE MCApprovals ----------------------------
(* Small instances of Approvals for TLC. *)
EXTENDS Approvals, TLC

CONSTANTS lane, plan, runtime, spec, edit, chat, permit, r1, r2, a1

EachKind ==
    lane :> "lane" @@ plan :> "plan" @@ runtime :> "runtime" 
    @@ spec :> "spec" @@ edit :> "edit" @@ chat :> "chat"
    @@ permit :> "permit"
KindOf == [c \in Cards |-> EachKind[c]]

\* No two cards are about the same thing.
PrintOf == [c \in Cards |-> c]

\* The server raises every kind, the bridge permission cards.
OneForEach == ({"next"} \X Kinds) \cup {<<"bridge", "permit">>}
============================================================================
