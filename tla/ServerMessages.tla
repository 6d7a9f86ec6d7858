--------------------------- MODULE ServerMessages ---------------------------
(***************************************************************************)
(* From the server to its handler, TcpClientCommandArrival: what the       *)
(* server means by a command, what the handler reads, and what it answers. *)
(* A payload is a code and a few bytes that stand for a document; what the *)
(* handler reads and answers goes through the codec of Bson.               *)
(***************************************************************************)
EXTENDS CommandStream, Bson

\* a request of n baskets is <<4, n>>, the acknowledgement of basket b with status s <<3, b, s>>
ASSUME ServerMessagesAssumption ==
  \A p \in Payloads : <<p[1], Len(p)>> \in {<<4, 2>>, <<3, 3>>}

CommandBasketPlacementAck == 3
CommandInventoryRequest == 4

Basket(b) == Text(<<300 + b>>)
ClassOf(p) == IF p[1] = CommandInventoryRequest THEN InventoryRequest ELSE BasketStatus

Meant(p) ==
  IF p[1] = CommandInventoryRequest
  THEN ObjectOf((list :> ArrayOf([k \in 1..p[2] |-> Basket(k)])) @@ (position :> Number("int32", 0)))
  ELSE ObjectOf((RFID :> Basket(p[2])) @@ (status :> Number("int32", p[3])))

Received == [p \in Payloads |-> ReadAs(ClassOf(p), Serialize(Meant(p), DecimalKeys))]

\* one status for each basket asked for: whether it was found, here every other one
Status(basket, found) ==
  ObjectOf((RFID :> basket) @@ (status :> Number("int32", IF found THEN 0 ELSE 1)))
Answer(request) ==
  LET asked == request.val[list].val IN
  ObjectOf(list :> ArrayOf([k \in DOMAIN asked |-> Status(asked[k], k % 2 = 0)]))

Requests == {p \in Payloads : p[1] = CommandInventoryRequest}
AnswerRead == [p \in Requests |-> ReadAs(Inventory, Serialize(Answer(Received[p]), Keys))]

Distinct(n) == Cardinality({Keys[i] : i \in 0..n - 1}) = n
Answered == {p \in Requests : AnswerRead[p] = Answer(Meant(p)) /\ Distinct(p[2])}
Legible == {p \in Payloads : Received[p] = Meant(p)}

-----------------------------------------------------------------------------
(* Properties.                                                             *)

\* The handler reads what the server meant, whatever it asks for, and the server can read
\* the answer: each of up to 208 baskets with its status, under a key of its own, though the
\* keys of the array are not the numbers they should be.
Understood ==
  handled \in Payloads =>
    /\ handled \in Legible
    /\ handled \in Requests /\ handled[2] <= 208 => handled \in Answered
=============================================================================
