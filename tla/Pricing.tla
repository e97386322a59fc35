-------------------------------- MODULE Pricing --------------------------------
(***************************************************************************)
(* The arithmetic of a sale: percentages, coupon discounts, commission,    *)
(* platform fee and totals, as the server computes them                    *)
(* (packages/core: shared/money, promoters, orders) and as the checkout    *)
(* page computes them for display (checkout-form.tsx).                     *)
(*                                                                         *)
(* Amounts are natural numbers of cents; JavaScript's doubles are exact    *)
(* for the products that occur (below 2^53).                               *)
(***************************************************************************)
EXTENDS Integers, Sequences, Functions

Bps == 10000

AtMost(a, b) == IF a <= b THEN a ELSE b
AtLeast(a, b) == IF a >= b THEN a ELSE b

(* Math.round(a / b) for naturals: half goes up.                           *)
RoundedRatio(a, b) == (2 * a + b) \div (2 * b)

percentageOf(amount, bps) == RoundedRatio(amount * bps, Bps)

(* The sum of f(s[i]) over a sequence.                                     *)
Total(s, f(_)) == SumFunction([i \in DOMAIN s |-> f(s[i])])

(* Mutant: a fixed discount may be more than the tickets cost.             *)
unboundedDiscount(coupon, subtotal) ==
    IF coupon.kind = "PERCENT" THEN percentageOf(subtotal, coupon.value) ELSE coupon.value

(***************************************************************************)
(* A coupon is [kind: PERCENT | FIXED, value, ...].                        *)
(***************************************************************************)
couponDiscountCents(coupon, subtotal) ==
    LET raw == IF coupon.kind = "PERCENT"
               THEN percentageOf(subtotal, AtMost(coupon.value, Bps))
               ELSE coupon.value
    IN AtMost(raw, subtotal)

(***************************************************************************)
(* What an order with the given ticket and product subtotals costs.        *)
(***************************************************************************)
orderTotals(tickets, products, discount, fee) ==
    LET net == tickets - discount
        charge == percentageOf(net, fee.bps)
    IN [subtotal |-> tickets + products, discount |-> discount,
        fee |-> charge, mode |-> fee.mode,
        total |-> net + products + (IF fee.mode = "BUYER" THEN charge ELSE 0)]

(* The same totals on the checkout page; `applied` holds the coupons that  *)
(* were previewed, at most one.                                            *)
shownTotal(tickets, products, applied, fee) ==
    LET raw(c) == IF c.kind = "PERCENT"
                  THEN RoundedRatio(tickets * AtMost(c.value, Bps), Bps) ELSE c.value
        discount == SumFunction([c \in applied |-> AtMost(raw(c), tickets)])
        net == tickets - discount
        charge == RoundedRatio(net * AtMost(fee.bps, Bps), Bps)
    IN net + products + (IF fee.mode = "BUYER" THEN charge ELSE 0)

(***************************************************************************)
(* Commission.  A rule is [promoter, ticket, scope, kind, value, base,     *)
(* active]; "any" stands for a narrowing field that is not set.            *)
(***************************************************************************)
matches(rule, promoter, ticket) ==
    /\ rule.active
    /\ rule.promoter \in {"any", promoter}
    /\ rule.ticket \in {"any", ticket}

specificity(rule) ==
      (IF rule.scope = "event" THEN 4 ELSE 0)
    + (IF rule.promoter # "any" THEN 2 ELSE 0)
    + (IF rule.ticket # "any" THEN 1 ELSE 0)

(* The positions of the rule that applies: the most specific one, and the  *)
(* oldest of those.  At most one.                                          *)
resolveRuleForUnit(rules, promoter, ticket) ==
    LET candidates == {i \in DOMAIN rules : matches(rules[i], promoter, ticket)}
        outranks(i, j) == \/ specificity(rules[i]) > specificity(rules[j])
                          \/ specificity(rules[i]) = specificity(rules[j]) /\ i < j
    IN {i \in candidates : \A j \in candidates \ {i} : outranks(i, j)}

(* The amount of a unit that earns: its share of the discount taken off.   *)
unitBase(price, base, subtotal, discount) ==
    IF base = "NOMINAL" \/ discount = 0 \/ subtotal = 0 THEN price
    ELSE price - percentageOf(price, AtMost(RoundedRatio(discount * Bps, subtotal), Bps))

(* units is a sequence of [ticket, price].                                 *)
computeCommission(units, rules, promoter, subtotal, discount) ==
    LET rule(u) == resolveRuleForUnit(rules, promoter, u.ticket)
        base(u) == SumFunction(
            [i \in rule(u) |-> unitBase(u.price, rules[i].base, subtotal, discount)])
        earns(u) == SumFunction(
            [i \in rule(u) |-> IF rules[i].kind = "PERCENT"
                              THEN percentageOf(base(u), rules[i].value) ELSE rules[i].value])
    IN [base |-> Total(units, base), amount |-> Total(units, earns)]
================================================================================
