----------------------------- MODULE Loyalty ------------------------------
(***************************************************************************)
(* What customers do with their points beside orders: the gifts they       *)
(* redeem, the catalogue that staff edit meanwhile, and the tier that the  *)
(* spend of the last months entitles them to, judged by the daily job and  *)
(* by staff's button at once.  redeemGift is one transaction and one step; *)
(* what reads first and writes later takes a step for each.                *)
(***************************************************************************)
EXTENDS Integers, FiniteSetsExt, Tally

CONSTANTS Users, Gifts, Orders,
          Buyer, Goods,  \* of each order
          Threshold,     \* the ladder: the spend that each tier asks for
          Grace,         \* whether demotions are held (tierGraceDays > 0)
          Cost, Limit, MinTier, \* of a gift: points, number per user, tier
          Stocks,        \* what staff may set the stock of a gift to
          Points,        \* the points a user starts with
          Editors,       \* staff at the gift catalogue
          Judges,        \* evaluations: the job's and those of staff's button
          Job,           \* the one that is the job
          MaxActs        \* bound: what staff do

Tiers == DOMAIN Threshold

ASSUME LoyaltyAssumption ==
    /\ Buyer \in [Orders -> Users] /\ Goods \in [Orders -> Nat]
    /\ Tiers = 1..Cardinality(Tiers) /\ Threshold[1] = 0
    /\ \A t, s \in Tiers : t < s => Threshold[t] < Threshold[s]
    /\ Grace \in BOOLEAN /\ MinTier \in Tiers \union {0} /\ Stocks \subseteq Nat
    /\ {Cost, Limit} \subseteq Nat \ {0} /\ {Points, MaxActs} \subseteq Nat
    /\ Job \in Judges /\ IsFiniteSet(Users)

VARIABLES
    balance,  \* the points of each user
    gift,     \* [status, active, stock, issued]
    redeemed, \* how often each user redeemed each gift
    order,    \* the orders: [status, back], back was refunded by a return or
              \* a partial refund
    standing, \* User.loyalty: [tier, clock], the tier 0 is "not judged yet"
              \* and the clock that of a demotion
    stale,    \* the users that were not judged for a day
    editor,   \* [at, gift, seen]
    judge,    \* [at, todo, spend, user, new]
    acts      \* how often staff did something

loyaltyVars == <<balance, gift, redeemed, order, standing, stale, editor, judge, acts>>
giftVars == <<balance, gift, redeemed, editor>>
tierVars == <<order, standing, stale, judge>>

----------------------------------------------------------------------------
(* Points and gifts                                                        *)

Act == acts < MaxActs /\ acts' = acts + 1

adjustPoints(u, delta) ==
    /\ Act /\ balance[u] + delta >= 0
    /\ balance' = [balance EXCEPT ![u] = @ + delta]
    /\ UNCHANGED <<gift, redeemed, editor, tierVars>>

Claimable(g) ==
    /\ gift[g].status = "listed" /\ gift[g].active
    /\ gift[g].stock = 0 \/ gift[g].issued < gift[g].stock

(* A user that was not judged yet counts as of the lowest tier.            *)
TierSuffices(u) ==
    MinTier # 0 => (IF standing[u].tier = 0 THEN 1 ELSE standing[u].tier) >= MinTier

redeemGift(u, g) ==
    /\ Claimable(g) /\ redeemed[u][g] < Limit /\ TierSuffices(u) /\ balance[u] >= Cost
    /\ gift' = [gift EXCEPT ![g].issued = @ + 1]
    /\ balance' = [balance EXCEPT ![u] = @ - Cost]
    /\ redeemed' = [redeemed EXCEPT ![u][g] = @ + 1]
    /\ UNCHANGED <<editor, acts, tierVars>>

----------------------------------------------------------------------------
(* The gift catalogue: staff's handlers read a gift and save what changed  *)

IdleEditor == [at |-> "idle"]

createGift(g, stock) ==
    /\ gift[g].status = "none" /\ stock \in Stocks
    /\ gift' = [gift EXCEPT ![g] = [status |-> "listed", active |-> TRUE,
                                    stock |-> stock, issued |-> 0]]
    /\ UNCHANGED <<balance, redeemed, editor, acts, tierVars>>

readGift(e, g, place) ==
    /\ editor[e] = IdleEditor /\ gift[g].status = "listed" /\ Act
    /\ editor' = [editor EXCEPT ![e] = [at |-> place, gift |-> g, seen |-> gift[g]]]
    /\ UNCHANGED <<balance, gift, redeemed, tierVars>>

(* What does not fit the copies issued is refused, judging by what was     *)
(* read.                                                                   *)
Valid(seen) == seen.stock > 0 => seen.issued <= seen.stock

(* Mutation: the document is written back as a whole.                      *)
MutMerge(now, seen, new) == IF now.status = "listed" THEN new ELSE now

(* Of a document that was read and changed, save writes the fields that    *)
(* differ, if it is still there.                                           *)
Merge(now, seen, new) ==
    [f \in DOMAIN now |-> IF now.status = "listed" /\ new[f] # seen[f] THEN new[f] ELSE now[f]]

save(e, new) ==
    LET g == editor[e].gift
    IN  /\ gift' = [gift EXCEPT ![g] = IF Valid(new) THEN Merge(@, editor[e].seen, new) ELSE @]
        /\ editor' = [editor EXCEPT ![e] = IdleEditor]
        /\ UNCHANGED <<balance, redeemed, acts, tierVars>>

putGift(e, active, stock) ==
    /\ editor[e].at = "put" /\ stock \in Stocks
    /\ save(e, [editor[e].seen EXCEPT !.active = active, !.stock = stock])

(* A gift that somebody redeemed before it was read is only switched off.  *)
deleteGift(e) ==
    /\ editor[e].at = "delete"
    /\ IF editor[e].seen.issued > 0
       THEN save(e, [editor[e].seen EXCEPT !.active = FALSE])
       ELSE /\ gift' = [gift EXCEPT ![editor[e].gift].status = "deleted"]
            /\ editor' = [editor EXCEPT ![e] = IdleEditor]
            /\ UNCHANGED <<balance, redeemed, acts, tierVars>>

----------------------------------------------------------------------------
(* What a user spent                                                       *)

Back(o) == 1..Goods[o] \* what a return or a partial refund may give back

deliver(o) ==
    /\ order[o].status = "open"
    /\ order' = [order EXCEPT ![o].status = "delivered"]
    /\ UNCHANGED <<standing, stale, judge, giftVars, acts>>

refundPart(o, amount) ==
    /\ order[o].status = "delivered" /\ order[o].back = 0 /\ amount \in Back(o)
    /\ order' = [order EXCEPT ![o].back = amount]
    /\ UNCHANGED <<standing, stale, judge, giftVars, acts>>

(* A full refund, or the order leaves the window.                          *)
leave(o) ==
    /\ order[o].status = "delivered"
    /\ order' = [order EXCEPT ![o].status = "closed"]
    /\ UNCHANGED <<standing, stale, judge, giftVars, acts>>

(* What lost parcels were refunded with is not subtracted.                 *)
computeSpendWindow(u) ==
    MapThenSumSet(LAMBDA o : Goods[o] - order[o].back,
                  {o \in Orders : Buyer[o] = u /\ order[o].status = "delivered"})

resolveTier(spend) == Max({t \in Tiers : Threshold[t] <= spend})

----------------------------------------------------------------------------
(* The evaluation of tiers                                                 *)

IdleJudge == [at |-> "idle"]

begin(j, users) ==
    /\ judge[j] = IdleJudge
    /\ judge' = [judge EXCEPT ![j] =
                    [at |-> "read", todo |-> users,
                     spend |-> [u \in users |-> computeSpendWindow(u)]]]
    /\ UNCHANGED <<order, standing, stale, giftVars>>

(* The job measures the spend of all candidates at once ...                *)
tick == stale # {} /\ begin(Job, stale) /\ UNCHANGED acts

(* ... and staff that of one user.                                         *)
recalculate(j, u) == j # Job /\ begin(j, {u}) /\ Act

(* Mutation: each evaluation below the line starts the clock again.        *)
MutJudged(seen, target) ==
    IF target < seen.tier /\ Grace
    THEN [seen EXCEPT !.clock = "running"]
    ELSE [tier |-> target, clock |-> "none"]

(* The first evaluation below the line starts the clock, and the demotion  *)
(* stands when it has run out.                                             *)
Judged(seen, target) ==
    IF target < seen.tier /\ Grace /\ seen.clock # "over"
    THEN [seen EXCEPT !.clock = "running"]
    ELSE [tier |-> target, clock |-> "none"]

(* recalcTier: the user is read and judged ...                             *)
readUser(j, u) ==
    /\ judge[j].at = "read" /\ u \in judge[j].todo
    /\ judge' = [judge EXCEPT ![j] =
                    [at |-> "write", todo |-> @.todo, spend |-> @.spend, user |-> u,
                     new |-> Judged(standing[u], resolveTier(@.spend[u]))]]
    /\ UNCHANGED <<order, standing, stale, giftVars, acts>>

Rest(j) ==
    LET rest == judge[j].todo \ {judge[j].user}
    IN  IF rest = {} THEN IdleJudge
        ELSE [at |-> "read", todo |-> rest, spend |-> judge[j].spend]

(* ... and written, whatever it has become meanwhile.                      *)
recalcTier(j) ==
    LET u == judge[j].user
    IN  /\ judge[j].at = "write"
        /\ standing' = [standing EXCEPT ![u] = judge[j].new]
        /\ stale' = stale \ {u}
        /\ judge' = [judge EXCEPT ![j] = Rest(j)]
        /\ UNCHANGED <<order, giftVars, acts>>

(* A write that fails leaves the user to the next tick.                    *)
recalcFails(j) ==
    /\ judge[j].at = "write"
    /\ judge' = [judge EXCEPT ![j] = Rest(j)]
    /\ UNCHANGED <<order, standing, stale, giftVars, acts>>

DayPasses(u) ==
    /\ u \notin stale
    /\ stale' = stale \union {u}
    /\ UNCHANGED <<order, standing, judge, giftVars, acts>>

(* A date runs out wherever it was copied to.                              *)
GraceEnds(u) ==
    /\ standing[u].clock = "running"
    /\ standing' = [standing EXCEPT ![u].clock = "over"]
    /\ judge' = [j \in Judges |->
                    IF judge[j].at = "write" /\ judge[j].user = u /\ judge[j].new.clock = "running"
                    THEN [judge[j] EXCEPT !.new.clock = "over"] ELSE judge[j]]
    /\ UNCHANGED <<order, stale, giftVars, acts>>

----------------------------------------------------------------------------
LoyaltyInit ==
    /\ balance = [u \in Users |-> Points]
    /\ gift = [g \in Gifts |-> [status |-> "none", active |-> FALSE, stock |-> 0, issued |-> 0]]
    /\ redeemed = [u \in Users |-> [g \in Gifts |-> 0]]
    /\ order = [o \in Orders |-> [status |-> "open", back |-> 0]]
    /\ standing = [u \in Users |-> [tier |-> 0, clock |-> "none"]]
    /\ stale = Users
    /\ editor = [e \in Editors |-> IdleEditor]
    /\ judge = [j \in Judges |-> IdleJudge]
    /\ acts = 0

Catalogue ==
    \/ \E u \in Users : \/ adjustPoints(u, Cost) \/ adjustPoints(u, -Cost)
                        \/ \E g \in Gifts : redeemGift(u, g)
    \/ \E g \in Gifts, stock \in Stocks : createGift(g, stock)
    \/ \E e \in Editors, g \in Gifts, place \in {"put", "delete"} : readGift(e, g, place)
    \/ \E e \in Editors : \/ \E active \in BOOLEAN, stock \in Stocks : putGift(e, active, stock)
                          \/ deleteGift(e)

Ladder ==
    \/ \E o \in Orders : \/ deliver(o) \/ leave(o)
                         \/ \E amount \in Back(o) : refundPart(o, amount)
    \/ tick
    \/ \E j \in Judges : \/ \E u \in Users : recalculate(j, u) \/ readUser(j, u)
                         \/ recalcTier(j) \/ recalcFails(j)
    \/ \E u \in Users : DayPasses(u) \/ GraceEnds(u)

LoyaltyNext == Catalogue \/ Ladder

LoyaltySpec == LoyaltyInit /\ [][LoyaltyNext]_loyaltyVars

(* The job runs every hour and ends with a batch, days pass, grace periods *)
(* end, and a user's evaluation by the job does not fail every time.       *)
LoyaltyFairness ==
    /\ WF_loyaltyVars(tick)
    /\ WF_loyaltyVars((\E u \in Users : readUser(Job, u)) \/ recalcTier(Job) \/ recalcFails(Job))
    /\ \A u \in Users : /\ WF_loyaltyVars(DayPasses(u)) /\ WF_loyaltyVars(GraceEnds(u))
                        /\ SF_loyaltyVars(judge[Job].at = "write" /\ judge[Job].user = u
                                   /\ recalcTier(Job))

LoyaltyFairSpec == LoyaltySpec /\ LoyaltyFairness

----------------------------------------------------------------------------
(* Properties                                                              *)

(* The number that a gift's stock is compared with is that of the          *)
(* redemptions there are, whatever staff save at the same time: an older   *)
(* number written back would let more vouchers out than were meant.        *)
IssuedIsRedeemed ==
    \A g \in Gifts : gift[g].issued = Total(Users, [u \in Users |-> redeemed[u][g]])

(* Once deliveries and refunds come to rest, each user ends up in the tier *)
(* that the spend entitles to and stays there: no evaluation that read old *)
(* figures, by the job or by staff, and no grace period keeps it off.      *)
TierSettles == \A u \in Users : <>[](standing[u].tier = resolveTier(computeSpendWindow(u)))
============================================================================
