----------------------------- MODULE MCChannels -----------------------------
(* Instances of Channels for TLC. *)
EXTENDS Channels, TLC

CONSTANTS m1, g1, t1, c1, c2, c3, a1, x1, n1, w1, phoneA, phoneB

Message(channel, kind, legs, alias, target) ==
    [channel |-> channel, session |-> channel, kind |-> kind, stake |-> 1,
     legs |-> legs, alias |-> alias, target |-> target]

(* A short message and one with the same key that names the away team by   *)
(* its alias, a request with a pick there is none of, a cancellation of    *)
(* the first bet that is delivered twice and one by another phone,         *)
(* messages that no bet comes of, and one to a channel without a betting   *)
(* service.                                                                *)
Messages ==
    m1 :> Message("SMS", "bet", <<<<"101", "1">>>>, FALSE, NoBet) @@
    g1 :> Message("USSD", "bet", <<<<"102", "3">>>>, FALSE, NoBet) @@
    t1 :> Message("SMS", "bet", <<<<"102", "2">>>>, TRUE, NoBet) @@
    c1 :> Message("SMS", "cancel", <<>>, FALSE, m1) @@
    c2 :> Message("SMS", "cancel", <<>>, FALSE, m1) @@
    c3 :> Message("SMS", "cancel", <<>>, FALSE, m1) @@
    a1 :> Message("USSD", "ask", <<>>, FALSE, NoBet) @@
    x1 :> Message("SMS", "bet", <<<<"101", "1">>, <<"101", "X">>>>, FALSE, NoBet) @@
    n1 :> Message("USSD", "bet", <<<<"101", "2">>>>, FALSE, NoBet)

PhoneNumbers == [c \in Callers |-> IF c \in {c3, a1} THEN phoneB ELSE phoneA]

Served == Deliveries \ {n1}

Payouts == [d \in Deliveries |-> 210]

(* The two deliveries of the cancellation. *)
Alike == Permutations({c1, c2})
=============================================================================
