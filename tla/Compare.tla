------------------------------- MODULE Compare -------------------------------
(***************************************************************************)
(* compare::compare_files: two reports are read and checked, then the two  *)
(* JSON values are walked together, depth first, and the differences are   *)
(* listed up to a limit.  The recursion of diff_values is a stack of the   *)
(* paths still to be visited.                                              *)
(***************************************************************************)
EXTENDS Naturals, Sequences, FiniteSets, SequencesExt, Positions

CONSTANTS
  Reports,     \* JSON values: functions from the paths in a value to what is
               \* there, "object", "array" or a scalar
  Sorted,      \* all keys and indices, in the order they are walked in
  MaxChanges   \* MAX_CHANGES

Container == {"object", "array"}

ASSUME CompareAssumption ==
  /\ MaxChanges \in Nat \ {0}
  /\ Sorted \in Seq(Range(Sorted)) /\ IsInjective(Sorted)
  /\ \A r \in Reports :
       /\ IsFiniteSet(DOMAIN r) /\ DOMAIN r \subseteq Seq(Range(Sorted))
       /\ <<>> \in DOMAIN r /\ r[<<>>] = "object"
       /\ \A p \in DOMAIN r : \A q \in Prefixes(p) \ {p} : q \in DOMAIN r /\ r[q] \in Container

VARIABLES
  left, right,  \* the two values, fixed
  visits,       \* the stack: paths, the next one first
  changes,      \* paths of the changes, in order
  more,         \* `truncated`
  comparison    \* "reading", "comparing", "pass", "warn" or "refused"

compareVars == <<left, right, visits, changes, more, comparison>>

CompareInit ==
  /\ left \in Reports /\ right \in Reports
  /\ visits = <<>>
  /\ changes = <<>>
  /\ more = FALSE
  /\ comparison = "reading"

-----------------------------------------------------------------------------
is_volatile_path(p) ==
  \/ p \in {<<"generated_at_unix_ms">>, <<"tool", "version">>}
  \/ p # <<>> /\ Last(p) \in {"duration_ms", "handshake_ms"}

\* read_report and describe_input of both: a file is refused that cannot be
\* read, is no regular file, is or grows over the limit, is no JSON or is no
\* diagnostic report of a version up to ours, with a target and a context.
ReadReports ==
  /\ comparison = "reading"
  /\ \/ comparison' = "refused" /\ UNCHANGED visits
     \/ comparison' = "comparing" /\ visits' = << <<>> >>
  /\ UNCHANGED <<left, right, changes, more>>

At(r, p) == [q \in {s \in DOMAIN r : IsPrefix(p, s)} |-> r[q]]

Children(p) ==
  LET present == {i \in DOMAIN Sorted : Append(p, Sorted[i]) \in DOMAIN left \cup DOMAIN right}
      keys == Picked(Sorted, present)
  IN [n \in DOMAIN keys |-> Append(p, keys[n])]

InBoth(p) == p \in DOMAIN left \cap DOMAIN right

Descends(p) == InBoth(p) /\ left[p] = right[p] /\ left[p] \in Container

\* One call of diff_values or, for a path in one of the values only, of
\* push_change.
MutVisit ==   \* mutant: the whole walk ends at the limit
  /\ comparison = "comparing"
  /\ visits # <<>>
  /\ LET p == Head(visits)
     IN IF is_volatile_path(p) \/ At(left, p) = At(right, p)
          THEN visits' = Tail(visits) /\ UNCHANGED <<changes, more>>
        ELSE IF Len(changes) >= MaxChanges
          THEN visits' = <<>> /\ UNCHANGED <<changes, more>>
        ELSE IF Descends(p)
          THEN visits' = Children(p) \o Tail(visits) /\ UNCHANGED <<changes, more>>
        ELSE visits' = Tail(visits) /\ changes' = Append(changes, p) /\ UNCHANGED more
  /\ UNCHANGED <<left, right, comparison>>

Visit ==
  /\ comparison = "comparing"
  /\ visits # <<>>
  /\ LET p == Head(visits)
     IN IF is_volatile_path(p) \/ At(left, p) = At(right, p)
          THEN visits' = Tail(visits) /\ UNCHANGED <<changes, more>>
        ELSE IF Len(changes) >= MaxChanges
          THEN visits' = Tail(visits) /\ more' = TRUE /\ UNCHANGED changes
        ELSE IF Descends(p)
          THEN visits' = Children(p) \o Tail(visits) /\ UNCHANGED <<changes, more>>
        ELSE visits' = Tail(visits) /\ changes' = Append(changes, p) /\ UNCHANGED more
  /\ UNCHANGED <<left, right, comparison>>

Compared ==
  /\ comparison = "comparing"
  /\ visits = <<>>
  /\ comparison' = IF changes = <<>> THEN "pass" ELSE "warn"
  /\ UNCHANGED <<left, right, visits, changes, more>>

CompareNext == ReadReports \/ Visit \/ Compared

CompareSpec == CompareInit /\ [][CompareNext]_compareVars

-----------------------------------------------------------------------------
CompareTypeOK ==
  /\ Range(visits) \cup Range(changes) \subseteq DOMAIN left \cup DOMAIN right
  /\ IsInjective(visits \o changes)
  /\ Len(changes) <= MaxChanges
  /\ more \in BOOLEAN
  /\ comparison \in {"reading", "comparing", "pass", "warn", "refused"}

\* The differences, without any walk: places under containers that are alike
\* in both values where only one has something or they have different things.
\* Nothing volatile counts, nor anything inside it.
Differences ==
  {p \in DOMAIN left \cup DOMAIN right :
     /\ \A q \in Prefixes(p) : ~ is_volatile_path(q)
     /\ \A q \in Prefixes(p) \ {p} : Descends(q)
     /\ ~ InBoth(p) \/ left[p] # right[p]}

Position(k) == CHOOSE i \in DOMAIN Sorted : Sorted[i] = k
Before(p, q) ==   \* in the document; neither is within the other
  \E n \in DOMAIN p \cap DOMAIN q :
    SubSeq(p, 1, n - 1) = SubSeq(q, 1, n - 1) /\ Position(p[n]) < Position(q[n])

WalkEnded == comparison \in {"pass", "warn"}

\* A comparison lists exactly the first differences of the document, as many
\* as the limit allows: none that is volatile, none twice, none in place of an
\* earlier one, whatever containers changed their kind or length; differences
\* that did not fit are never kept quiet; and "pass" means there are none.
ComparedExactly ==
  WalkEnded =>
    /\ \A p \in Differences :
         LET rank == Cardinality({q \in Differences : Before(q, p)}) + 1
         IN IF rank <= MaxChanges THEN rank \in DOMAIN changes /\ changes[rank] = p
                                  ELSE more
    /\ Len(changes) <= Cardinality(Differences)
    /\ comparison = "pass" <=> Differences = {}

\* "At most 256 differences are emitted; `truncated` states whether more
\* existed" (docs/output-contract.md:83).
TruncatedMeansMore ==
  WalkEnded => (more <=> Cardinality(Differences) > MaxChanges)
==============================================================================
