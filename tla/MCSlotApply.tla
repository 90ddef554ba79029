---------------------------- MODULE MCSlotApply ----------------------------
(* Two profiles: q is the built-in quarantine profile, p one of a policy.   *)
EXTENDS SlotApply

CONSTANTS p, q

MCProfiles == {p, q}

\* Two policies that share keys, each using every kind of map of some profile;
\* with Cap = 2 the second does not fit beside itself in the deny map.
OnlyQuarantine == {<<"profile", q>>}
Narrow == OnlyQuarantine \cup {<<"profile", p>>, <<"allow", p>>, <<"file", p>>}
Wide == OnlyQuarantine \cup {<<"profile", p>>, <<"deny", p>>, <<"deny", q>>, <<"exec", p>>}
MCPolicies == {OnlyQuarantine, Narrow, Wide}
=============================================================================
