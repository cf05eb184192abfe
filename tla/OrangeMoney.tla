---------------------------- MODULE OrangeMoney ----------------------------
(***************************************************************************)
(* Orange Money's side: the life of a QR code, and what its API answers    *)
(* about one, as OrangeMoneyStrategy reports it.  The client pays a QR     *)
(* while he holds it, whatever has become of the order; Orange Money       *)
(* expires it after its validity of 1800 s.                                *)
(***************************************************************************)
EXTENDS Store

QrFinal == {"paid", "cancelled", "expired"}

SetQr(t, s) ==
    /\ qr' = [qr EXCEPT ![t].state = s]
    /\ UNCHANGED <<order, tx, credits, wallet, req, arrivals>>

\* The client scans the QR and pays.
PayQr(t) == qr[t].state = "open" /\ SetQr(t, "paid")

\* The client gives up in the Orange Money application.
CancelQr(t) == qr[t].state = "open" /\ SetQr(t, "cancelled")

\* The validity of the QR runs out.
ExpireQr(t) == qr[t].state \in {"issued", "open"} /\ SetQr(t, "expired")

OrangeMoneyNext == \E t \in Txs : PayQr(t) \/ CancelQr(t) \/ ExpireQr(t)

\* What strategy.verifyPayment may report of QR t.  A paid QR may be a success; a
\* QR not settled yet is pending, and so is whatever Orange Money answers with
\* HTTP 404, be it paid and dropped, run out or unknown; any other HTTP error and
\* any exception is reported exactly as a cancelled or expired QR is: neither
\* success nor pending.
VerifyOutcomes(t) ==
    {"pending", "failed"} \cup (IF qr[t].state = "paid" THEN {"success"} ELSE {})

\* QR q was paid, and the server takes that for a payment of order o: the QR was
\* made for o, or a client quoted it when he had a payment of o verified.
Accepted(q, o) == qr[q].state = "paid" /\ (qr[q].order = o \/ o \in qr[q].quotedFor)

PaidAtOrange(o) == \E q \in Txs : Accepted(q, o)

=============================================================================
