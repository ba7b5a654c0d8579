------------------------------ MODULE MCCompare ------------------------------
(***************************************************************************)
(* Reports of two fields, each absent, a scalar, an array of up to two     *)
(* scalars or an object with a duration; a limit of two changes, of up to  *)
(* four.                                                                   *)
(***************************************************************************)
EXTENDS Compare, TLC

Under(k, tree) == [p \in {<<k>> \o q : q \in DOMAIN tree} |-> tree[Tail(p)]]
Scalar(s) == <<>> :> s
Elements(s) ==
  [p \in {<<>>} \cup {<< <<"0", "1">>[i] >> : i \in DOMAIN s} |->
     IF p = <<>> THEN "array" ELSE IF p = <<"0">> THEN s[1] ELSE s[2]]
Stage(duration, s) ==
  (<<>> :> "object") @@ (<<"duration_ms">> :> duration)
  @@ (IF s = "none" THEN <<>> ELSE <<"status">> :> s)
Scalars == {"u", "v"}
Trees ==
  {Scalar(s) : s \in Scalars} \cup {Elements(s) : s \in BoundedSeq(Scalars, 2)}
  \cup {Stage(d, s) : d \in Scalars, s \in Scalars \cup {"none"}}
Part(k) == {<<>>} \cup {Under(k, t) : t \in Trees}
MCReports ==
  {(<<>> :> "object") @@ (<<"generated_at_unix_ms">> :> g) @@ d @@ t :
     g \in {"u"}, d \in Part("dns"), t \in Part("tcp")}
  \cup {(<<>> :> "object") @@ (<<"generated_at_unix_ms">> :> "v")}
MCSorted == <<"0", "1", "dns", "duration_ms", "generated_at_unix_ms", "status", "tcp">>
==============================================================================
