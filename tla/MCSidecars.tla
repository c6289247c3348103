----------------------------- MODULE MCSidecars -----------------------------
(***************************************************************************)
(* Small instances of the sidecars: "terminal" always asks and no browser  *)
(* can do it, "notify" is for both.                                        *)
(***************************************************************************)
EXTENDS Sidecars, TLC

MCCapability == {"terminal", "notify"}
MCBrowserCan == {"notify"}
MCAlwaysAsk == {"terminal"}
MCGrants == {{"terminal"}, {"notify"}}

Sym == Permutations(Sidecar) \cup Permutations(Poller) \cup Permutations(Redeemer)
          \cup Permutations(Code) \cup Permutations(Job)
=============================================================================
