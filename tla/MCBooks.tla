-------------------------------- MODULE MCBooks --------------------------------
(* Two orders of an event that sells through a promoter and a coupon of    *)
(* this promoter.  The prices are chosen so that shares and percentages    *)
(* do not come out even.                                                   *)
EXTENDS Books, TLC

CONSTANTS o1, o2, p1, c1

MCCart == o1 :> [units |-> <<[ticket |-> "vip", price |-> 333], [ticket |-> "std", price |-> 1001]>>,
                 products |-> 250]
       @@ o2 :> [units |-> <<[ticket |-> "std", price |-> 999]>>, products |-> 0]

MCCouponOf == c1 :> [kind |-> "FIXED", value |-> 1200, promoter |-> p1, max |-> 2]
MCFirstFee == [bps |-> 1000, mode |-> "BUYER"]
MCFees == {[bps |-> 750, mode |-> "PRODUCER"]}
MCInputs == {[coupon |-> c1, ref |-> "none"], [coupon |-> "none", ref |-> p1]}

Rule(p, t, scope, kind, v, b) ==
    [promoter |-> p, ticket |-> t, scope |-> scope, kind |-> kind, value |-> v,
     base |-> b, active |-> TRUE]
MCFirstRules == <<Rule("any", "any", "event", "PERCENT", 1050, "AFTER_DISCOUNT")>>
MCNewRules == {Rule("any", "any", "event", "PERCENT", 2000, "NOMINAL"),
               Rule(p1, "vip", "event", "FIXED", 45, "NOMINAL")}

Symmetry == Permutations(Workers)
================================================================================
