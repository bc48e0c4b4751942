------------------------- MODULE MCIragBreakerAudit -------------------------
(* Two callers of one upstream, whose late results race its breaker, behind*)
(* a provider that is not configured.                                      *)
EXTENDS IragBreakerAudit, TLC

CONSTANTS r1, r2, kanata, ryzumi, search

TwoRequests == {r1, r2}
RequestSymmetry == Permutations(Requests)
KanataFirst == (search :> <<kanata, ryzumi>>)
RyzumiAlone == (search :> <<ryzumi>>)
OneTick == (search :> 1)
NothingCached == (search :> 0)
NoKeys == {}
=============================================================================
