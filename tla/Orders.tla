------------------------------- MODULE Orders -------------------------------
(***************************************************************************)
(* Lay::instruction and Back::instruction: the list of instructions a      *)
(* batch of orders becomes in the request placeOrders.  The text is taken  *)
(* apart into commas and pieces; a piece is the object one order is        *)
(* printed as, or Cut, what the stray comma in one of Back's formats makes *)
(* of it: the literal after the comma is printed in place of the selection *)
(* and the object is never closed.                                         *)
(***************************************************************************)
EXTENDS Integers, Sequences, SequencesExt

Comma == [text |-> "comma"]
Cut == [text |-> "cut"]

\* A market-on-close order has a liability, and no price.
Piece(side, o) ==
    IF o.order_type = "LIMIT"
    THEN [text |-> "object", side |-> side, id |-> o.selection_id,
          orderType |-> "LIMIT", size |-> o.size, price |-> o.price]
    ELSE [text |-> "object", side |-> side, id |-> o.selection_id,
          orderType |-> "MARKET_ON_CLOSE", liability |-> o.size]

IsLast(orders, i) == i = Len(orders)

LayPiece(orders, i) ==
    IF IsLast(orders, i) THEN <<Piece("LAY", orders[i])>>
    ELSE <<Piece("LAY", orders[i]), Comma>>

BackPiece_Bare(orders, i) == <<Piece("BACK", orders[i])>>
BackPiece(orders, i) ==
    IF IsLast(orders, i) THEN <<Piece("BACK", orders[i])>>
    ELSE IF orders[i].order_type = "SP" THEN <<Cut>>
    ELSE <<Piece("BACK", orders[i]), Comma>>

Lay_instruction(orders) == FlattenSeq([i \in DOMAIN orders |-> LayPiece(orders, i)])
Back_instruction(orders) == FlattenSeq([i \in DOMAIN orders |-> BackPiece(orders, i)])

-----------------------------------------------------------------------------
\* What a reader makes of the list: it is one if pieces and commas alternate
\* and nothing is cut, and then says the objects between its commas.
Readable(list) ==
    /\ Len(list) % 2 = 1 \/ list = <<>>
    /\ \A k \in DOMAIN list : list[k].text = (IF k % 2 = 0 THEN "comma" ELSE "object")

Objects(list) == [k \in 1 .. (Len(list) + 1) \div 2 |-> list[2 * k - 1]]

SaysExactly(side, list, orders) ==
    /\ Readable(list)
    /\ Len(Objects(list)) = Len(orders)
    /\ \A k \in DOMAIN orders : Objects(list)[k] = Piece(side, orders[k])
=============================================================================
