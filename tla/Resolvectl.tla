------------------------------ MODULE Resolvectl -----------------------------
(***************************************************************************)
(* probe::path::inspect_resolver: the DNS servers, domains and default     *)
(* routes in the output of `resolvectl status`, read line by line into the *)
(* global section and one section for every link.                          *)
(***************************************************************************)
EXTENDS Naturals, Sequences, SequencesExt, Positions

CONSTANTS
  Listings,  \* what resolvectl may print: sequences of lines
  Colon      \* the words that contain a colon: IPv6 addresses

\* A line is [is, field, words]: the header of a link (its index and name are
\* words, one word if malformed), a "break" ("Global" or blank), a "field", or
\* "more" words of the field above; the current server is only one.
IsListing(l) ==
  /\ l \in Seq(Range(l))
  /\ \A i \in DOMAIN l :
       /\ l[i].is \in {"Link", "break", "field", "more"}
       /\ l[i].words \in Seq(Range(l[i].words))
       /\ l[i].is = "more" => /\ i > 1 /\ l[i - 1].is \in {"field", "more"}
                             /\ l[i - 1].field # "Current_DNS_Server"

ASSUME ListingAssumption == \A l \in Listings : IsListing(l)

VARIABLES
  listing,          \* fixed
  line,             \* position in it
  global,           \* the global section, [servers, domains, default_route]
  links,            \* the finished sections of links, in order
  current_link,     \* the section under way, in a sequence of at most one
  continuation,     \* "servers", "domains" or "none"
  resolver          \* "inspecting", "parsing", "pass" or the error kind

parsed == <<global, links, current_link, continuation>>
resolvectlVars == <<listing, line, parsed, resolver>>

Section(header) ==
  [link |-> header, servers |-> <<>>, domains |-> <<>>, default_route |-> "unset"]

ResolvectlInit ==
  /\ listing \in Listings
  /\ line = 1
  /\ global = Section(<<>>)
  /\ links = <<>>
  /\ current_link = <<>>
  /\ continuation = "none"
  /\ resolver = "inspecting"

-----------------------------------------------------------------------------
push_unique_words(destination, words) ==
  LET added == {i \in DOMAIN words : /\ ~ Contains(destination, words[i])
                                    /\ \A j \in 1..(i - 1) : words[j] # words[i]}
  IN destination \o Picked(words, added)

ServerField == {"Current_DNS_Server", "DNS_Servers"}

\* What a field (or, under a field, more words) adds to a section.  Two fields
\* tell the default route: "Default_Route" always, "Protocols" if it is unset.
Told(words, yes, no) ==
  IF Contains(words, yes) THEN "yes" ELSE IF Contains(words, no) THEN "no" ELSE "unset"

Extended(section, kind, words) ==
  CASE kind = "servers" -> [section EXCEPT !.servers = push_unique_words(@, words)]
    [] kind = "domains" -> [section EXCEPT !.domains = push_unique_words(@, words)]
    [] kind = "Default_Route" -> [section EXCEPT !.default_route = Told(words, "yes", "no")]
    [] kind = "Protocols" /\ section.default_route = "unset" ->
         [section EXCEPT !.default_route = Told(words, "+DefaultRoute", "-DefaultRoute")]
    [] OTHER -> section

\* Into the link's section if there is one; the global one has no default route.
Add(kind, words) ==
  IF current_link # <<>>
    THEN current_link' = <<Extended(current_link[1], kind, words)>> /\ UNCHANGED global
    ELSE /\ global' = IF kind \in {"servers", "domains"} THEN Extended(global, kind, words)
                                                         ELSE global
         /\ UNCHANGED current_link

Ends(kind) == resolver' = kind /\ UNCHANGED <<line, parsed>>

\* resolvectl cannot be started, fails, is cut off, times out, or is read.
inspect_resolver ==
  /\ resolver = "inspecting"
  /\ \E kind \in {"tool_missing", "tool_failed", "timeout", "output_truncated",
                  "parse_error", "parsing"} : Ends(kind)
  /\ UNCHANGED listing

Reads(is) ==
  /\ resolver = "parsing"
  /\ line <= Len(listing)
  /\ listing[line].is = is
  /\ line' = line + 1
  /\ UNCHANGED <<listing, resolver>>

words == listing[line].words

Header ==
  /\ Reads("Link")
  /\ Len(words) = 2
  /\ links' = links \o current_link
  /\ current_link' = <<Section(words)>>
  /\ continuation' = "none"
  /\ UNCHANGED global

\* An error keeps nothing of what was read before it.
MalformedHeader ==
  /\ resolver = "parsing"
  /\ line <= Len(listing)
  /\ listing[line].is = "Link" /\ Len(words) # 2
  /\ resolver' = "parse_error"
  /\ global' = Section(<<>>) /\ links' = <<>> /\ current_link' = <<>>
  /\ continuation' = "none"
  /\ UNCHANGED <<listing, line>>

Break ==
  /\ Reads("break")
  /\ continuation' = "none"
  /\ UNCHANGED <<global, links, current_link>>

\* What more words under a field would belong to.
MutContinues(field) ==   \* mutant: an unknown field does not end the one above
  CASE field = "DNS_Servers" -> "servers"
    [] field = "DNS_Domain"  -> "domains"
    [] OTHER -> continuation

Continues(field) ==
  CASE field = "DNS_Servers" -> "servers"
    [] field = "DNS_Domain"  -> "domains"
    [] OTHER -> "none"

KindOf(field) ==
  CASE field \in ServerField -> "servers"
    [] field = "DNS_Domain"  -> "domains"
    [] field \in {"Default_Route", "Protocols"} -> field
    [] OTHER -> "none"

TakeField(field, value) ==
  /\ continuation' = Continues(field)
  /\ Add(KindOf(field), value)
  /\ UNCHANGED links

ReadField == Reads("field") /\ TakeField(listing[line].field, words)

HasColon(l) == Range(l.words) \cap Colon # {}

\* A line with a colon is taken for a field, whatever it is.
More ==
  /\ Reads("more")
  /\ IF HasColon(listing[line]) THEN TakeField("unknown", <<>>)
     ELSE Add(continuation, words) /\ UNCHANGED <<links, continuation>>

AllLines ==
  /\ resolver = "parsing"
  /\ line > Len(listing)
  /\ links' = links \o current_link
  /\ current_link' = <<>>
  /\ resolver' = "pass"
  /\ UNCHANGED <<listing, line, global, continuation>>

ResolvectlNext ==
  \/ inspect_resolver \/ Header \/ MalformedHeader \/ Break
  \/ ReadField \/ More \/ AllLines

ResolvectlSpec == ResolvectlInit /\ [][ResolvectlNext]_resolvectlVars

-----------------------------------------------------------------------------
ResolvectlTypeOK ==
  /\ line \in 1..(Len(listing) + 1)
  /\ \A section \in Range(<<global>> \o links \o current_link) :
       /\ IsInjective(section.servers) /\ IsInjective(section.domains)
       /\ section.default_route \in {"yes", "no", "unset"}
  /\ Len(current_link) <= 1
  /\ continuation \in {"servers", "domains", "none"}

\* The header that a line is under (0 for none), and the field.
Headers == {i \in DOMAIN listing : listing[i].is = "Link"}
HeaderOf(i) == Max({0} \cup {h \in Headers : h <= i})
FieldOf(i) ==
  LET first == Max({0} \cup {j \in 1..i : listing[j].is # "more"})
  IN IF first = 0 \/ listing[first].is # "field" THEN "none" ELSE listing[first].field

Words(h, fields) ==
  UNION {Range(listing[i].words) :
           i \in {j \in DOMAIN listing \ Headers : HeaderOf(j) = h /\ FieldOf(j) \in fields}}

Tells(section, h) ==
  /\ Range(section.servers) = Words(h, ServerField)
  /\ Range(section.domains) = Words(h, {"DNS_Domain"})
  /\ section.default_route = "yes" =>
       Words(h, {"Default_Route", "Protocols"}) \cap {"yes", "+DefaultRoute"} # {}

\* Every link is reported once, in order, with exactly the servers and domains
\* that stand under its header, and the global section with those before the
\* first one, however fields, continued lines and blanks alternate; no word
\* under one field or link is taken for one of another.  (Continued lines with
\* an IPv6 address are excepted: their colons make them fields.)
ServersAttributed ==
  resolver = "pass" /\ (\A l \in Range(listing) : l.is = "more" => ~ HasColon(l)) =>
    /\ Tells(global, 0)
    /\ Len(links) = Cardinality(Headers)
    /\ \A k \in DOMAIN links :
         LET h == Nth(Headers, k)
         IN links[k].link = listing[h].words /\ Tells(links[k], h)
==============================================================================
