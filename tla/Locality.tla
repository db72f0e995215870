------------------------------ MODULE Locality ------------------------------
(***************************************************************************)
(* How the registry ranks providers (internal/discovery/registry.go): the  *)
(* distance between two nodes, the score of a distance under a locality    *)
(* preference, and the exchange sort of SortProvidersByLocality.           *)
(*                                                                         *)
(* Of a member's tags only the "site" entry is told apart.                 *)
(***************************************************************************)
EXTENDS Naturals, SequencesExt

Distances   == {"same_node", "same_lan", "wan"}
Preferences == {"node_only", "lan_only", "lan_preferred", "wan_allowed"}

\* A member's tags: no tags at all, tags without "site", or the site named.
\* A node the registry has no member for is "absent".
Tags(Sites) == Sites \cup {"untagged", "nosite"}

\* Mutant of Distance: the client's own node is not looked for.
DistanceByTags(members, clientNode, node) ==
  IF members[clientNode] = members[node] /\ members[node] \notin {"absent", "untagged"}
  THEN "same_lan" ELSE "wan"

\* CalculateProviderDistance.  Reading an absent key of a Go map yields "", so
\* two members that have tags but no "site" compare equal.
Distance(members, clientNode, node) ==
  IF clientNode = node THEN "same_node"
  ELSE IF /\ members[clientNode] = members[node]
          /\ members[node] \notin {"absent", "untagged"}
       THEN "same_lan"
  ELSE "wan"

\* The score: 0 is not eligible, and a larger one comes first.
Score(distance, preference) ==
  IF \/ preference = "node_only" /\ distance # "same_node"
     \/ preference = "lan_only"  /\ distance = "wan"
  THEN 0
  ELSE CASE distance = "same_node" -> 3
         [] distance = "same_lan"  -> 2
         [] distance = "wan"       -> 1

-----------------------------------------------------------------------------
(* The two nested loops, over providers and their scores.                  *)

\* Mutants of Exchange: half of it, and the wrong way around.
ExchangeHalf(score, s, i, j) ==
  IF score[s[j]] > score[s[i]] THEN [s EXCEPT ![i] = s[j]] ELSE s
ExchangeSmaller(score, s, i, j) ==
  IF score[s[j]] < score[s[i]] THEN [s EXCEPT ![i] = s[j], ![j] = s[i]] ELSE s

Exchange(score, s, i, j) ==
  IF score[s[j]] > score[s[i]] THEN [s EXCEPT ![i] = s[j], ![j] = s[i]] ELSE s

\* The sequence after the first k of the pairs (i, j) that the loops visit, the
\* ones with j <= i being skipped.
SortDescending(score, s) ==
  LET n == Len(s)
      i(k) == (k - 1) \div n + 1
      j(k) == ((k - 1) % n) + 1
      after[k \in 0..n * n] ==
        IF k = 0 THEN s
        ELSE IF i(k) < j(k) THEN Exchange(score, after[k - 1], i(k), j(k))
        ELSE after[k - 1]
  IN  after[n * n]

\* Mutant of SortByScore: off by one.
SortAboveOne(score, s) ==
  FoldLeft(LAMBDA result, p : IF score[p] > 1 THEN Append(result, p) ELSE result,
           <<>>, SortDescending(score, s))

\* SortProvidersByLocality: the eligible providers, best first.
SortByScore(score, s) ==
  FoldLeft(LAMBDA result, p : IF score[p] > 0 THEN Append(result, p) ELSE result,
           <<>>, SortDescending(score, s))
=============================================================================
