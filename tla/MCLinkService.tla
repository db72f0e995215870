--------------------------- MODULE MCLinkService ---------------------------
(* An instance of LinkService for TLC: a tunnel to a URL and the two ends  *)
(* of channels; purposes with a part, without one, and that are addresses, *)
(* and prefixes of which one overlaps the other.                           *)
EXTENDS LinkService

KindOf == [l \in Links |-> l]

MCPurposes == {<<"secrets">>, <<"secrets", "s1">>, <<"secrets", "80">>, <<"logs">>}
MCPrefixes == {<<"secrets">>, <<"secrets", "s1">>}
MCStatic   == <<"secrets">> :> "s" @@ <<"secrets", "s1">> :> "t"
MCHostPorts == {<<"secrets", "80">>}
=============================================================================
