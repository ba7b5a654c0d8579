------------------------------- MODULE Resolver ------------------------------
(***************************************************************************)
(* probe::dns: an address literal is its own answer if the requested       *)
(* family allows it, a name is looked up under the timeout, and the loop   *)
(* of resolved_result keeps the first addresses of what the system         *)
(* resolver returned, filtered, without duplicates, up to a limit.         *)
(***************************************************************************)
EXTENDS Naturals, Sequences, FiniteSets, Functions

CONSTANTS
  Address,      \* addresses
  Family,       \* ... and their families
  Lookups,      \* what the system resolver may return
  MaxResolved   \* MAX_ADDRESSES

ASSUME ResolverAssumption ==
  /\ Family \in [Address -> {"ipv4", "ipv6"}]
  /\ Lookups \subseteq Seq(Address)
  /\ MaxResolved \in Nat \ {0}

VARIABLES
  literal,    \* the addresses the target's host is itself: none or one, fixed
  only,       \* ipv4_only, ipv6_only or "any", fixed
  answer,     \* what lookup_host returned
  next,       \* position of the loop in it
  seen,       \* `seen`
  addresses,  \* `addresses`
  truncated,  \* `truncated`
  status      \* "lookup", "collecting", then "pass" or the error kind

resolverVars == <<literal, only, answer, next, seen, addresses, truncated, status>>

Allowed(a) == only \in {"any", Family[a]}

ResolverInit ==
  /\ literal \in {{}} \cup {{a} : a \in Address}
  /\ only \in {"any", "ipv4", "ipv6"}
  /\ answer = <<>>
  /\ next = 1
  /\ seen = {}
  /\ addresses = <<>>
  /\ truncated = FALSE
  /\ status = "lookup"

-----------------------------------------------------------------------------
resolve_literal ==
  /\ status = "lookup"
  /\ \E a \in literal :
       IF Allowed(a) THEN status' = "pass" /\ addresses' = <<a>>
       ELSE status' = "address_family_mismatch" /\ UNCHANGED addresses
  /\ UNCHANGED <<literal, only, answer, next, seen, truncated>>

\* lookup_host answers, fails, or takes longer than the timeout.
resolve_lookup ==
  /\ status = "lookup"
  /\ literal = {}
  /\ \/ answer' \in Lookups /\ status' = "collecting"
     \/ status' \in {"resolver_error", "timeout"} /\ UNCHANGED answer
  /\ UNCHANGED <<literal, only, next, seen, addresses, truncated>>

MutSkips(a) == ~ Allowed(a)   \* mutant: duplicates are not looked for

Skips(a) == ~ Allowed(a) \/ a \in seen

Conclude == status' = IF addresses = <<>> THEN "no_addresses" ELSE "pass"

\* An iteration of the loop.  An address that is filtered is not inserted.
Collect ==
  /\ status = "collecting"
  /\ next <= Len(answer)
  /\ LET a == answer[next]
     IN /\ seen' = IF Allowed(a) THEN seen \cup {a} ELSE seen
        /\ IF Skips(a)
             THEN UNCHANGED <<addresses, truncated, status>>
           ELSE IF Len(addresses) = MaxResolved
             THEN truncated' = TRUE /\ Conclude /\ UNCHANGED addresses
           ELSE addresses' = Append(addresses, a) /\ UNCHANGED <<truncated, status>>
  /\ next' = next + 1
  /\ UNCHANGED <<literal, only, answer>>

Exhausted ==
  /\ status = "collecting"
  /\ next > Len(answer)
  /\ Conclude
  /\ UNCHANGED <<literal, only, answer, next, seen, addresses, truncated>>

ResolverNext == resolve_literal \/ resolve_lookup \/ Collect \/ Exhausted

ResolverSpec == ResolverInit /\ [][ResolverNext]_resolverVars

-----------------------------------------------------------------------------
LookupEnded == status \notin {"lookup", "collecting"}

\* Type invariant.
ResolverTypeOK ==
  /\ literal \subseteq Address
  /\ only \in {"any", "ipv4", "ipv6"}
  /\ answer \in Lookups \cup {<<>>}
  /\ next \in 1..(Len(answer) + 1)
  /\ seen \subseteq Address
  /\ addresses \in Seq(Address) /\ Len(addresses) <= MaxResolved
  /\ truncated \in BOOLEAN
  /\ status \in {"lookup", "collecting", "pass", "address_family_mismatch",
                 "resolver_error", "timeout", "no_addresses"}

\* Where the usable addresses of an answer first appear.
FirstUsable ==
  {i \in DOMAIN answer : Allowed(answer[i]) /\ \A j \in 1..(i - 1) : answer[j] # answer[i]}
Rank(i) == Cardinality({j \in FirstUsable : j <= i})

\* What is reported of an answer are its first usable addresses in resolver
\* order, each once, as many as the limit allows; it is called truncated
\* exactly if there were more, however duplicates and the other family are
\* mixed in; and it fails only if there was none.
ResolvedExactly ==
  LookupEnded /\ literal = {} /\ status \notin {"resolver_error", "timeout"} =>
    /\ truncated <=> Cardinality(FirstUsable) > MaxResolved
    /\ status = "pass" <=> FirstUsable # {}
    /\ Range(addresses) = {answer[i] : i \in {j \in FirstUsable : Rank(j) <= MaxResolved}}
    /\ \A i \in FirstUsable : Rank(i) <= MaxResolved => addresses[Rank(i)] = answer[i]
    /\ Len(addresses) = Cardinality(Range(addresses))
==============================================================================
