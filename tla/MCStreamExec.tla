---------------------------- MODULE MCStreamExec ----------------------------
(* The graphs StreamExec is checked on.  "Req" has no folder, "Resp" is     *)
(* folded from a ChatModel's events, "Str" from strings, and "Doc" is an    *)
(* interface that "Resp" implements, and so does "Note", registered late;   *)
(* "Any" is one that every type implements.                                *)
EXTENDS StreamExec, TLC

MCImplements == {<<"Resp", "Doc">>, <<"Note", "Doc">>} \cup {<<t, "Any">> : t \in {"Resp", "Str", "Note"}}
MCRegistered == "Resp" :> "event" @@ "Str" :> "Str"
MCLate == "Note" :> "event"
NoLate == [t \in {} |-> ElemT]

E(f, p, t, q) == [from |-> f, port |-> p, to |-> t, toPort |-> q]
Wire(f, t) == E(f, 0, t, 0)

(* types: [node -> <<kind, inT, outT>>] *)
G(types, edges, entry, exit, i, o) ==
  [kind |-> [n \in DOMAIN types |-> types[n][1]],
   inT  |-> [n \in DOMAIN types |-> types[n][2]],
   outT |-> [n \in DOMAIN types |-> types[n][3]],
   edges |-> edges, entry |-> entry, exit |-> exit, I |-> i, O |-> o]

Chat == <<"chat", "Req", "Resp">>
Lambda(t, u) == <<"value", t, u>>
Fan(k, t) == <<k, t, t>>

(* template -> chat -> parse -> chat *)
Linear == G("t" :> Lambda("Str", "Req") @@ "m" :> Chat @@ "p" :> Lambda("Doc", "Req") @@ "z" :> Chat,
            <<Wire("t", "m"), Wire("m", "p"), Wire("p", "z")>>, "t", "z", "Str", "Resp")

(* chat -> branch -> {chat, lambda}, both into the exit *)
BranchDag == G("m" :> Chat @@ "b" :> Fan("branch", "Resp") @@ "q" :> Lambda("Resp", "Req") @@ "n" :> Chat
                 @@ "r" :> Lambda("Resp", "Resp") @@ "z" :> Lambda("Resp", "Str"),
               <<Wire("m", "b"), E("b", 1, "q", 0), E("b", 2, "r", 0), Wire("q", "n"), Wire("n", "z"), Wire("r", "z")>>,
               "m", "z", "Req", "Str")

(* a route that ends beside the exit *)
SideExit == G("b" :> Fan("branch", "Str") @@ "r" :> Lambda("Str", "Str") @@ "z" :> Lambda("Str", "Str"),
              <<E("b", 1, "r", 0), E("b", 2, "z", 0)>>, "b", "z", "Str", "Str")

(* a Parallel on a branch's route *)
BranchFan == G("b" :> Fan("branch", "Str") @@ "c" :> Fan("parallel", "Str") @@ "r" :> Lambda("Str", "Str")
                 @@ "z" :> Lambda("Str", "Str"),
               <<E("b", 1, "c", 0), E("b", 2, "z", 0), E("c", 3, "r", 0), E("c", 4, "z", 0)>>, "b", "z", "Str", "Str")

(* chat -> Copy -> {lambda -> chat -> lambda, lambda = exit} *)
CopyFan == G("m" :> Chat @@ "c" :> Fan("copy", "Resp") @@ "x" :> Lambda("Resp", "Req") @@ "y" :> Chat
               @@ "v" :> Lambda("Doc", "Str") @@ "z" :> Lambda("Resp", "Str"),
             <<Wire("m", "c"), E("c", 1, "x", 0), E("c", 2, "z", 0), Wire("x", "y"), Wire("y", "v")>>,
             "m", "z", "Req", "Str")

(* a Copy behind a target of a Copy: on the tail, and in a leaf *)
NestedTail == G("m" :> Chat @@ "c" :> Fan("copy", "Resp") @@ "d" :> Fan("copy", "Resp") @@ "x" :> Lambda("Resp", "Str")
                  @@ "y" :> Lambda("Resp", "Str") @@ "z" :> Lambda("Resp", "Str"),
                <<Wire("m", "c"), E("c", 1, "x", 0), E("c", 2, "d", 0), E("d", 3, "z", 0), E("d", 4, "y", 0)>>,
                "m", "z", "Req", "Str")

NestedLeaf == G("m" :> Chat @@ "c" :> Fan("copy", "Resp") @@ "q" :> Lambda("Resp", "Req") @@ "n" :> Chat
                  @@ "d" :> Fan("copy", "Resp") @@ "x" :> Lambda("Resp", "Str") @@ "z" :> Lambda("Resp", "Str"),
                <<Wire("m", "c"), E("c", 1, "z", 0), E("c", 2, "q", 0), Wire("q", "n"), Wire("n", "d"), E("d", 3, "x", 0)>>,
                "m", "z", "Req", "Str")

(* Copies of a value: of a type with a folder of its own, and without *)
ValueCopy(t) == G("a" :> Lambda(t, t) @@ "c" :> Fan("copy", t) @@ "x" :> Lambda(t, t) @@ "z" :> Lambda(t, t),
                  <<Wire("a", "c"), E("c", 1, "x", 0), E("c", 2, "z", 0)>>, "a", "z", t, t)

(* a Copy that feeds a Copy, in a leaf *)
ValueNested == G("a" :> Lambda("Str", "Str") @@ "c" :> Fan("copy", "Str") @@ "d" :> Fan("copy", "Str")
                   @@ "x" :> Lambda("Str", "Str") @@ "z" :> Lambda("Str", "Str"),
                 <<Wire("a", "c"), E("c", 1, "z", 0), E("c", 2, "d", 0), E("d", 3, "x", 0)>>, "a", "z", "Str", "Str")

(* a leaf that takes any: two folders would do, so none is chosen *)
AmbiguousLeaf == G("a" :> Lambda("Str", "Str") @@ "c" :> Fan("copy", "Str") @@ "x" :> Lambda("Any", "Str")
                     @@ "z" :> Lambda("Str", "Str"),
                   <<Wire("a", "c"), E("c", 1, "x", 0), E("c", 2, "z", 0)>>, "a", "z", "Str", "Str")

(* both targets lead to the exit *)
Reconverge == G("m" :> Chat @@ "c" :> Fan("copy", "Resp") @@ "x" :> Lambda("Doc", "Str") @@ "y" :> Lambda("Resp", "Str")
                  @@ "z" :> Lambda("Str", "Str"),
                <<Wire("m", "c"), E("c", 1, "x", 0), E("c", 2, "y", 0), Wire("x", "z"), Wire("y", "z")>>,
                "m", "z", "Req", "Str")

(* two edges on one port; the Copy lies on a route that may not be taken *)
SharedPort == G("a" :> Lambda("Str", "Str") @@ "b" :> Fan("branch", "Str") @@ "c" :> Fan("copy", "Str")
                  @@ "x" :> Lambda("Str", "Str") @@ "q" :> Lambda("Str", "Req") @@ "z" :> Chat,
                <<Wire("a", "q"), Wire("a", "b"), E("b", 1, "q", 0), E("b", 2, "c", 0), E("c", 3, "x", 0),
                  E("c", 4, "q", 0), Wire("q", "z")>>, "a", "z", "Str", "Resp")

(* entry -> {chat, lambda} -> merge -> lambda; the entry forwards *)
MergeFan == G("a" :> Fan("pass", "Req") @@ "m" :> Chat @@ "x" :> Lambda("Req", "Resp") @@ "j" :> <<"merge", "Resp", "Str">>
                @@ "z" :> Lambda("Str", "Str"),
              <<Wire("a", "m"), Wire("a", "x"), E("m", 0, "j", 2), E("x", 0, "j", 1), Wire("j", "z")>>,
              "a", "z", "Req", "Str")

(* the entry computes, and a source has a second, later edge *)
MergeAstray == G("a" :> Lambda("Str", "Str") @@ "x" :> Lambda("Str", "Str") @@ "y" :> Lambda("Str", "Str")
                   @@ "w" :> Lambda("Str", "Str") @@ "j" :> <<"merge", "Str", "Str">>,
                 <<Wire("a", "x"), Wire("a", "y"), E("x", 0, "j", 1), E("y", 0, "j", 2), Wire("x", "w")>>,
                 "a", "j", "Str", "Str")

(* a merge behind a merge *)
TwoMerges == G("a" :> Fan("pass", "Req") @@ "m" :> Chat @@ "j" :> <<"merge", "Resp", "Resp">> @@ "x" :> Lambda("Req", "Resp")
                 @@ "z" :> <<"merge", "Resp", "Str">>,
               <<Wire("a", "m"), E("m", 0, "j", 1), E("j", 0, "z", 2), Wire("a", "x"), E("x", 0, "z", 3)>>,
               "a", "z", "Req", "Str")

(* Parallel and Combine on a route: no stream plan *)
Boxed == G("b" :> Fan("branch", "Str") @@ "w" :> Lambda("Str", "Str") @@ "c" :> Fan("parallel", "Str")
             @@ "x" :> Lambda("Str", "Str") @@ "y" :> Lambda("Str", "Str") @@ "z" :> <<"combine", "Str", "Str">>,
           <<E("b", 1, "c", 0), E("b", 2, "w", 0), E("c", 3, "x", 0), E("c", 4, "y", 0), E("x", 0, "z", 3),
             E("y", 0, "z", 4)>>, "b", "z", "Str", "Str")

MCGraphs == {Linear, BranchDag, SideExit, BranchFan, CopyFan, NestedTail, NestedLeaf, ValueCopy("Str"),
             ValueCopy("Req"), ValueNested, AmbiguousLeaf, Reconverge, SharedPort, MergeFan, MergeAstray,
             TwoMerges, Boxed}

Unfolded == {AmbiguousLeaf}
=============================================================================
