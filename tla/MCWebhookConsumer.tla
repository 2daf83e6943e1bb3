-------------------------- MODULE MCWebhookConsumer --------------------------
(***************************************************************************)
(* Values for TLC.  Event bad has a malformed body; k1 is a good           *)
(* subscription, kb has a secret that does not decrypt, ku an unsafe URL.  *)
(***************************************************************************)
EXTENDS ConnectedConsumer

CONSTANTS bad, t1, w1, w2, h1, kb, ku

SubjectDef == [e \in Events |-> t1]
SubscribersDef == [e \in Events |-> Hooks]
MalformedDef == {bad}
BrokenDef == {kb}
UnusableDef == {ku}
HomeDef == [h \in Handlers |-> IF h = h1 THEN w1 ELSE w2]
AllFaults == FaultKinds

=============================================================================
