----------------------------- MODULE CreditLedger -----------------------------
(***************************************************************************)
(* What the operations of CreditLedgerService                              *)
(* (src/services/credit_ledger.py) do to the accounts table.               *)
(*                                                                         *)
(* An operation works on the values its session has loaded and writes      *)
(* absolute column values over the current ones; "current" and "loaded"    *)
(* differ when another session has committed in between.                   *)
(***************************************************************************)
EXTENDS Integers

Account == [balance: Int, reserved: Int]

\* The platform's share, settings.platform_fee_rate = 0.10, of an amount.
Fee(amount) == amount \div 10

Available(a) == a.balance - a.reserved

\* The column after a flush: the ORM emits an UPDATE only for a changed value.
Column(current, loaded, new) == IF new = loaded THEN current ELSE new

SetReserved(current, loaded, u, r) ==
  [current EXCEPT ![u].reserved = Column(@, loaded[u].reserved, r)]

SetBalance(current, loaded, u, b) ==
  [current EXCEPT ![u].balance = Column(@, loaded[u].balance, b)]

\* reserve_credits, once the check of the available balance has passed.
ReserveCredits(current, loaded, u, amount) ==
  SetReserved(current, loaded, u, loaded[u].reserved + amount)

\* release_credits: the reservation never drops below zero.
ReleaseCredits(current, loaded, u, amount) ==
  LET left == loaded[u].reserved - amount
  IN  SetReserved(current, loaded, u, IF left < 0 THEN 0 ELSE left)

\* charge_credits, if the fee were recorded but not deducted.
ChargeWithoutFee(current, loaded, client, provider, amount) ==
  LET debited == SetReserved(current, loaded, client,
                             loaded[client].reserved - amount)
  IN  IF client = provider
      THEN debited
      ELSE SetBalance(SetBalance(debited, loaded, client,
                                 loaded[client].balance - amount),
                      loaded, provider, loaded[provider].balance + amount)

\* charge_credits: a client who is also the provider has one account object,
\* on which the debit and the credit add up.
ChargeCredits(current, loaded, client, provider, amount) ==
  LET earned == amount - Fee(amount)
      debited == SetReserved(current, loaded, client,
                             loaded[client].reserved - amount)
  IN  IF client = provider
      THEN SetBalance(debited, loaded, client,
                      loaded[client].balance - amount + earned)
      ELSE SetBalance(SetBalance(debited, loaded, client,
                                 loaded[client].balance - amount),
                      loaded, provider, loaded[provider].balance + earned)
=============================================================================
