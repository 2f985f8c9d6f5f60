--------------------------- MODULE WithdrawProofs ---------------------------
(***************************************************************************)
(* TLAPS proofs about Withdraw, for every number of tabs, owners, codes    *)
(* and withdrawals.                                                        *)
(*                                                                         *)
(* IInv relates what a request carries to what was mailed and to the rows; *)
(* its heart is CodesOK. MoneyOK says who may be about to write a balance. *)
(* One lemma per action shows that IInv is kept; most follow from CallStep *)
(* (one request moves), FrameStep (none does) or RedisStep (the code is    *)
(* deleted or written back).                                               *)
(***************************************************************************)
EXTENDS Withdraw, SequenceTheorems, FiniteSetTheorems, TLAPS

Decisions == {"approved", "rejected"}

(* An entry of Redis says what the mail with its code said.                *)
SeenOK(o) == o.code \in DOMAIN mail /\ o.data = mail[o.code]

(* A request that has found a code compared it with what was mailed, and   *)
(* one that decides holds a row it has read pending.                       *)
CallOK(k) ==
  /\ k.kind \in {"otp", "withdraw"} => k.data \in Data
  /\ k.kind = "withdraw" /\ k.pc \in {"read", "wrong", "burnt"} => SeenOK(k.seen)
  /\ k.kind = "withdraw" /\ k.pc = "wrong" => ~LastTry(k)
  /\ k.kind = "withdraw" /\ k.pc = "burnt" => RightCode(k) /\ AmountBound(k)
  /\ k.kind \in Decisions => k.row \in DOMAIN tx
  /\ k.kind \in Decisions /\ k.pc = "read" => tx[k.row].st = "pending"

Deciding(k) == k.kind \in Decisions /\ k.pc = "read"

(* Two owners never hold the same row.                                     *)
OneDecider ==
  \A s, r \in Slots :
    Deciding(call[s]) /\ Deciding(call[r]) /\ call[s].row = call[r].row => s = r

(* A code is used by a withdrawal, or by the request that has burnt it.    *)
Burning(k, c) == k.kind = "withdraw" /\ k.pc = "burnt" /\ k.code = c
Has(k, c) == k.kind = "withdraw" /\ k.pc \in {"read", "wrong"} /\ k.seen.code = c
Used(c) == \/ \E i \in DOMAIN tx : tx[i].code = c
           \/ \E s \in Slots : Burning(call[s], c)

(* A code nobody raced for has one user, and once it has it is neither in  *)
(* Redis nor with a request that may still compare it or write it back.    *)
OneUse(c) ==
  /\ \A i, j \in DOMAIN tx : tx[i].code = c /\ tx[j].code = c => i = j
  /\ \A s, r \in Slots : Burning(call[s], c) /\ Burning(call[r], c) => s = r
  /\ \A i \in DOMAIN tx, s \in Slots : ~(tx[i].code = c /\ Burning(call[s], c))

Gone(c) == otp.code # c /\ \A s \in Slots : ~Has(call[s], c)

CodesOK == \A c \in DOMAIN mail : c \notin raced => OneUse(c) /\ (Used(c) => Gone(c))

IInv == /\ TypeOK
        /\ list \subseteq DOMAIN tx
        /\ otp = NoOtp \/ SeenOK(otp)
        /\ \A i \in DOMAIN tx : /\ tx[i].code \in DOMAIN mail
                                /\ tx[i].amt = mail[tx[i].code].amt
        /\ \A s \in Slots : CallOK(call[s])
        /\ OneDecider
        /\ CodesOK

-----------------------------------------------------------------------------
(* Types *)

Kinds == {"none", "otp", "withdraw", "approved", "rejected"}
Pcs == {"idle", "sent", "read", "wrong", "burnt", "ok", "failed"}

(* The numbers the bounds are. *)
LEMMA Bounds ==
  /\ Start \in Nat /\ MaxCodes \in Nat /\ MaxTx \in Nat /\ MaxClicks \in Nat
  /\ \A a \in Amounts : a \in Nat /\ a # 0
BY WithdrawAssumption DEF Amounts

LEMMA CallFields ==
  ASSUME NEW k \in CallType
  PROVE  /\ k.kind \in Kinds /\ k.pc \in Pcs /\ k.data \in Data \cup {NoData}
         /\ k.code \in 0..MaxCodes /\ k.snap \in Nat /\ k.seen \in OtpType /\ k.row \in 0..MaxTx
BY DEF CallType, Kinds, Pcs

(* A request that goes to another place. *)
LEMMA ToRecord ==
  ASSUME NEW k \in CallType, NEW pc \in Pcs
  PROVE  LET rec == [k EXCEPT !.pc = pc]
         IN  /\ rec \in CallType /\ rec.pc = pc /\ rec.kind = k.kind /\ rec.data = k.data
             /\ rec.code = k.code /\ rec.snap = k.snap /\ rec.seen = k.seen /\ rec.row = k.row
BY DEF CallType, Pcs

LEMMA NoOtpTyped == NoOtp \in OtpType /\ NoOtp.code = 0
BY Bounds DEF NoOtp, OtpType, MaxTries

LEMMA NoCallTyped == NoCall \in CallType /\ NoCall.kind = "none" /\ NoCall.pc = "idle"
BY Bounds, NoOtpTyped DEF NoCall, CallType

(* A request that is sent. *)
LEMMA SentRecord ==
  ASSUME NEW kind \in Kinds, NEW d \in Data \cup {NoData}, NEW code \in 0..MaxCodes,
         NEW row \in 0..MaxTx
  PROVE  LET rec == [NoCall EXCEPT !.kind = kind, !.pc = "sent", !.data = d, !.code = code,
                                   !.row = row]
         IN  /\ rec \in CallType /\ rec.kind = kind /\ rec.pc = "sent" /\ rec.data = d
             /\ rec.row = row
BY NoCallTyped, NoOtpTyped, Bounds DEF NoCall, CallType, Kinds

(* Sequences: rows and mails are numbered from 1. *)
LEMMA Rows ==
  ASSUME TypeOK
  PROVE  /\ Len(tx) \in Nat /\ DOMAIN tx = 1..Len(tx) /\ \A i \in DOMAIN tx : tx[i] \in TxType
         /\ Len(mail) \in Nat /\ DOMAIN mail = 1..Len(mail)
         /\ \A c \in DOMAIN mail : mail[c] \in Data
<1>1. tx \in Seq(TxType) /\ mail \in Seq(Data)
  BY DEF TypeOK
<1>2. Len(tx) \in Nat /\ DOMAIN tx = 1..Len(tx) /\ tx \in [1..Len(tx) -> TxType]
  BY <1>1, LenProperties
<1>3. Len(mail) \in Nat /\ DOMAIN mail = 1..Len(mail) /\ mail \in [1..Len(mail) -> Data]
  BY <1>1, LenProperties
<1> QED BY <1>2, <1>3

-----------------------------------------------------------------------------
(* Kinds of steps *)

(* What one request's step leaves of the others. *)
LEMMA CallEffect ==
  ASSUME TypeOK, NEW s \in Slots, NEW rec \in CallType, call' = [call EXCEPT ![s] = rec]
  PROVE  /\ call' \in [Slots -> CallType] /\ call'[s] = rec
         /\ \A r \in Slots : r # s => call'[r] = call[r]
BY DEF TypeOK

(* One request moves; rows, mails and Redis stay as they are. *)
LEMMA CallStep ==
  ASSUME IInv, TypeOK', NEW s \in Slots, NEW rec \in CallType,
         call' = [call EXCEPT ![s] = rec],
         UNCHANGED <<tx, mail, otp, raced>>, list' \subseteq DOMAIN tx,
         CallOK(rec),
         Deciding(rec) => ~Locked(rec.row, s),
         \A c \in DOMAIN mail : Burning(rec, c) => Burning(call[s], c),
         \A c \in DOMAIN mail : Has(rec, c) => Has(call[s], c) \/ otp.code = c
  PROVE  IInv'
<1>0. TypeOK
  BY DEF IInv
<1>1. /\ call'[s] = rec /\ \A r \in Slots : r # s => call'[r] = call[r]
  BY <1>0, CallEffect
<1>2. list' \subseteq DOMAIN tx' /\ (otp' = NoOtp \/ SeenOK(otp)')
      /\ \A i \in DOMAIN tx' : tx'[i].code \in DOMAIN mail' /\ tx'[i].amt = mail'[tx'[i].code].amt
  BY DEF IInv, SeenOK
<1>3. \A r \in Slots : CallOK(call[r])'
  <2> SUFFICES ASSUME NEW r \in Slots PROVE CallOK(call[r])'
    OBVIOUS
  <2>1. PICK k : k = call'[r]
    OBVIOUS
  <2>2. CallOK(k)
    BY <1>1, <2>1 DEF IInv
  <2> QED BY <2>1, <2>2 DEF CallOK, SeenOK, LastTry, RightCode, AmountBound
<1>4. OneDecider'
  BY <1>1 DEF IInv, OneDecider, Deciding, Locked
<1>5. CodesOK'
  <2> SUFFICES ASSUME NEW c \in DOMAIN mail, c \notin raced
               PROVE  OneUse(c)' /\ (Used(c)' => Gone(c)')
    BY DEF CodesOK
  <2>1. OneUse(c) /\ (Used(c) => Gone(c))
    BY DEF IInv, CodesOK
  <2>2. \A r \in Slots : Burning(call'[r], c) => Burning(call[r], c)
    BY <1>1
  <2>3. \A r \in Slots : Has(call'[r], c) => Has(call[r], c) \/ otp.code = c
    BY <1>1
  <2>4. OneUse(c)'
    BY <2>1, <2>2 DEF OneUse, Burning
  <2>5. Used(c)' => Used(c)
    BY <2>2 DEF Used, Burning
  <2>6. Gone(c) => Gone(c)'
    BY <2>3 DEF Gone, Has
  <2> QED BY <2>1, <2>4, <2>5, <2>6
<1> QED BY <1>2, <1>3, <1>4, <1>5 DEF IInv

(* No request moves, and Redis at most forgets. *)
LEMMA FrameStep ==
  ASSUME IInv, TypeOK', UNCHANGED <<tx, mail, call, raced>>, otp' = otp \/ otp' = NoOtp,
         list' \subseteq DOMAIN tx
  PROVE  IInv'
<1>1. list' \subseteq DOMAIN tx' /\ (otp' = NoOtp \/ SeenOK(otp)')
      /\ \A i \in DOMAIN tx' : tx'[i].code \in DOMAIN mail' /\ tx'[i].amt = mail'[tx'[i].code].amt
  BY DEF IInv, SeenOK
<1>2. \A r \in Slots : CallOK(call[r])'
  BY DEF IInv, CallOK, SeenOK, LastTry, RightCode, AmountBound
<1>3. OneDecider'
  BY DEF IInv, OneDecider, Deciding
<1>4. CodesOK'
  <2> SUFFICES ASSUME NEW c \in DOMAIN mail, c \notin raced
               PROVE  OneUse(c)' /\ (Used(c)' => Gone(c)')
    BY DEF CodesOK
  <2>1. OneUse(c) /\ (Used(c) => Gone(c))
    BY DEF IInv, CodesOK
  <2>2. c # 0
    BY Rows DEF IInv
  <2>3. otp'.code = otp.code \/ otp'.code = 0
    BY NoOtpTyped
  <2> QED BY <2>1, <2>2, <2>3 DEF OneUse, Used, Gone, Burning, Has
<1> QED BY <1>1, <1>2, <1>3, <1>4 DEF IInv

(* The code in Redis is deleted or written back by a request that has read *)
(* it: nobody else holds it, or it counts as raced from now on.            *)
LEMMA RedisStep ==
  ASSUME IInv, TypeOK', NEW s \in Slots, NEW rec \in CallType,
         call' = [call EXCEPT ![s] = rec],
         UNCHANGED <<tx, mail, list>>, raced' = RacedWith(s),
         call[s].kind = "withdraw", call[s].pc \in {"read", "wrong"},
         \/ otp' = NoOtp
         \/ otp'.code = call[s].seen.code /\ otp'.data = call[s].seen.data,
         rec.kind = "withdraw", rec.pc \in {"failed", "burnt"}, CallOK(rec),
         rec.pc = "burnt" => otp' = NoOtp /\ rec.code = call[s].seen.code
  PROVE  IInv'
<1>0. TypeOK
  BY DEF IInv
<1>1. /\ call'[s] = rec /\ \A r \in Slots : r # s => call'[r] = call[r]
  BY <1>0, CallEffect
<1>2. SeenOK(call[s].seen) /\ call[s].seen.code # 0
  BY <1>0, Rows DEF IInv, CallOK, SeenOK
<1>3. list' \subseteq DOMAIN tx' /\ (otp' = NoOtp \/ SeenOK(otp)')
      /\ \A i \in DOMAIN tx' : tx'[i].code \in DOMAIN mail' /\ tx'[i].amt = mail'[tx'[i].code].amt
  BY <1>2 DEF IInv, SeenOK
<1>4. \A r \in Slots : CallOK(call[r])'
  <2> SUFFICES ASSUME NEW r \in Slots PROVE CallOK(call[r])'
    OBVIOUS
  <2>1. PICK k : k = call'[r]
    OBVIOUS
  <2>2. CallOK(k)
    BY <1>1, <2>1 DEF IInv
  <2> QED BY <2>1, <2>2 DEF CallOK, SeenOK, LastTry, RightCode, AmountBound
<1>5. OneDecider'
  BY <1>1 DEF IInv, OneDecider, Deciding, Decisions
<1>6. CodesOK'
  <2> SUFFICES ASSUME NEW c \in DOMAIN mail, c \notin raced'
               PROVE  OneUse(c)' /\ (Used(c)' => Gone(c)')
    BY DEF CodesOK
  <2>0. c \notin raced /\ c # 0
    BY <1>0, Rows DEF RacedWith
  <2>1. OneUse(c) /\ (Used(c) => Gone(c))
    BY <2>0 DEF IInv, CodesOK
  <2>2. \A r \in Slots : Has(call'[r], c) => r # s /\ Has(call[r], c)
    BY <1>1 DEF Has
  <2>3. CASE c = call[s].seen.code
    <3>1. \A r \in Slots : r # s => ~Has(call[r], c)
      BY <2>0, <2>3 DEF RacedWith, Holding, Has
    <3>2. ~Used(c)
      BY <2>1, <2>3 DEF Gone, Has
    <3>3. \A r \in Slots : Burning(call'[r], c) => r = s
      BY <1>1, <3>2 DEF Used
    <3>4. OneUse(c)'
      BY <3>2, <3>3 DEF OneUse, Used, Burning
    <3>5. Used(c)' => otp' = NoOtp
      BY <1>1, <3>2, <3>3 DEF Used, Burning
    <3>6. Used(c)' => Gone(c)'
      BY <2>0, <2>2, <3>1, <3>5, NoOtpTyped DEF Gone, Has
    <3> QED BY <3>4, <3>6
  <2>4. CASE c # call[s].seen.code
    <3>1. \A r \in Slots : Burning(call'[r], c) => Burning(call[r], c)
      BY <1>1, <2>4 DEF Burning
    <3>2. OneUse(c)'
      BY <2>1, <3>1 DEF OneUse, Burning
    <3>3. Used(c)' => Used(c)
      BY <3>1 DEF Used, Burning
    <3>4. otp'.code # c
      BY <2>0, <2>4, NoOtpTyped
    <3>5. Gone(c) => Gone(c)'
      BY <2>2, <3>4 DEF Gone, Has
    <3> QED BY <2>1, <3>2, <3>3, <3>5
  <2> QED BY <2>3, <2>4
<1> QED BY <1>3, <1>4, <1>5, <1>6 DEF IInv

-----------------------------------------------------------------------------
(* The wallet page *)

LEMMA SlotsOf ==
  /\ \A t \in Tabs : Main(t) \in Slots /\ <<t, "again">> \in Slots
  /\ \A a \in Admins : Main(a) \in Slots
BY DEF Slots, Main

LEMMA SendArguments ==
  /\ "otp" \in Kinds \ Decisions /\ "withdraw" \in Kinds \ Decisions /\ Decisions \subseteq Kinds
  /\ 0 \in 0..MaxCodes /\ 0 \in 0..MaxTx
BY Bounds DEF Kinds, Decisions

(* A request that is sent holds nothing yet; what it carries is on record. *)
LEMMA SendStep ==
  ASSUME IInv, TypeOK', NEW s \in Slots, NEW kind \in Kinds, NEW d \in Data \cup {NoData},
         NEW code \in 0..MaxCodes, NEW row \in 0..MaxTx, Send(s, kind, d, code, row),
         UNCHANGED <<tx, mail, otp, raced, list>>,
         kind \in {"otp", "withdraw"} => d \in Data,
         kind \in Decisions => row \in DOMAIN tx
  PROVE  IInv'
<1> DEFINE rec == [NoCall EXCEPT !.kind = kind, !.pc = "sent", !.data = d, !.code = code,
                                 !.row = row]
<1>1. /\ rec \in CallType /\ rec.kind = kind /\ rec.pc = "sent" /\ rec.data = d
      /\ rec.row = row
  BY NoCallTyped, NoOtpTyped, Bounds DEF NoCall, CallType, Kinds
<1>2. call' = [call EXCEPT ![s] = rec]
  BY DEF Send
<1> HIDE DEF rec
<1>3. CallOK(rec)
  BY <1>1 DEF CallOK
<1>4. ~Deciding(rec) /\ \A c \in DOMAIN mail : ~Burning(rec, c) /\ ~Has(rec, c)
  BY <1>1 DEF Deciding, Burning, Has
<1>5. list' \subseteq DOMAIN tx
  BY DEF IInv
<1> QED BY <1>1, <1>2, <1>3, <1>4, <1>5, CallStep

(* A page that has been answered forgets its request. *)
LEMMA ForgetStep ==
  ASSUME IInv, TypeOK', NEW s \in Slots, call' = [call EXCEPT ![s] = NoCall],
         UNCHANGED <<tx, mail, otp, raced>>, list' \subseteq DOMAIN tx
  PROVE  IInv'
<1>1. CallOK(NoCall)
  BY NoCallTyped DEF CallOK, Decisions
<1>2. ~Deciding(NoCall) /\ \A c \in DOMAIN mail : ~Burning(NoCall, c) /\ ~Has(NoCall, c)
  BY NoCallTyped DEF Deciding, Burning, Has
<1> QED BY <1>1, <1>2, NoCallTyped, CallStep

LEMMA SentTyped ==
  ASSUME TypeOK, NEW s \in Slots, NEW kind \in Kinds, NEW d \in Data \cup {NoData},
         NEW code \in 0..MaxCodes, NEW row \in 0..MaxTx, Send(s, kind, d, code, row)
  PROVE  call' \in [Slots -> CallType]
BY SentRecord, CallEffect DEF Send

LEMMA ClickTyped == ASSUME TypeOK, Click PROVE clicks' \in 0..MaxClicks
BY Bounds DEF TypeOK, Click

LEMMA SelectAccountStep ==
  ASSUME IInv, NEW t \in Tabs, NEW b \in Range(Listed), SelectAccount(t, b)
  PROVE  IInv'
<1>1. TypeOK'
  BY ClickTyped DEF IInv, TypeOK, SelectAccount
<1> QED BY <1>1, FrameStep DEF SelectAccount, IInv

LEMMA SubmitWithdrawStep ==
  ASSUME IInv, NEW t \in Tabs, NEW amt \in Amounts, SubmitWithdraw(t, amt)
  PROVE  IInv'
<1>1. TypeOK
  BY DEF IInv
<1> DEFINE d == [amt |-> amt, dest |-> Destination(t)]
<1>2. d \in Data
  BY <1>1 DEF TypeOK, Data, Dests, Destination
<1>3. /\ Send(Main(t), "otp", d, 0, 0) /\ tab' = [tab EXCEPT ![t].pend = d] /\ Click
      /\ UNCHANGED <<bal, tx, otp, mail, cool, list, raced, crossed>>
  BY DEF SubmitWithdraw
<1> HIDE DEF d
<1>4. call' \in [Slots -> CallType]
  BY <1>1, <1>2, <1>3, SentTyped, SlotsOf, SendArguments
<1>5. TypeOK'
  BY <1>1, <1>2, <1>3, <1>4, ClickTyped DEF TypeOK
<1> QED BY <1>2, <1>3, <1>5, SendStep, SlotsOf, SendArguments

LEMMA OtpRequestedStep ==
  ASSUME IInv, NEW t \in Tabs, OtpRequested(t)
  PROVE  IInv'
<1>1. call' \in [Slots -> CallType]
  BY CallEffect, NoCallTyped, SlotsOf DEF IInv, OtpRequested
<1>2. TypeOK'
  BY <1>1 DEF IInv, TypeOK, OtpRequested
<1> QED BY <1>2, ForgetStep, SlotsOf DEF OtpRequested, IInv

LEMMA OtpRefusedStep ==
  ASSUME IInv, NEW s \in Slots, OtpRefused(s)
  PROVE  IInv'
<1>1. call' \in [Slots -> CallType]
  BY CallEffect, NoCallTyped DEF IInv, OtpRefused
<1>2. TypeOK'
  BY <1>1 DEF IInv, TypeOK, OtpRefused
<1> QED BY <1>2, ForgetStep DEF OtpRefused, IInv

LEMMA ResendStep ==
  ASSUME IInv, NEW t \in Tabs, Resend(t)
  PROVE  IInv'
<1>1. TypeOK
  BY DEF IInv
<1>2. tab[t].pend \in Data
  BY <1>1 DEF TypeOK, Resend
<1>3. /\ Send(<<t, "again">>, "otp", tab[t].pend, 0, 0) /\ Click
      /\ UNCHANGED <<bal, tx, otp, mail, cool, tab, list, raced, crossed>>
  BY DEF Resend
<1>4. call' \in [Slots -> CallType]
  BY <1>1, <1>2, <1>3, SentTyped, SlotsOf, SendArguments
<1>5. TypeOK'
  BY <1>1, <1>3, <1>4, ClickTyped DEF TypeOK
<1> QED BY <1>2, <1>3, <1>5, SendStep, SlotsOf, SendArguments

LEMMA ResentStep ==
  ASSUME IInv, NEW t \in Tabs, Resent(t)
  PROVE  IInv'
<1>1. call' \in [Slots -> CallType]
  BY CallEffect, NoCallTyped, SlotsOf DEF IInv, Resent
<1>2. TypeOK'
  BY <1>1 DEF IInv, TypeOK, Resent
<1> QED BY <1>2, ForgetStep, SlotsOf DEF Resent, IInv

LEMMA WaitEndsStep ==
  ASSUME IInv, NEW t \in Tabs, WaitEnds(t)
  PROVE  IInv'
<1>1. TypeOK'
  BY DEF IInv, TypeOK, WaitEnds
<1> QED BY <1>1, FrameStep DEF WaitEnds, IInv

LEMMA CloseOtpDialogStep ==
  ASSUME IInv, NEW t \in Tabs, CloseOtpDialog(t)
  PROVE  IInv'
<1>1. TypeOK'
  BY ClickTyped DEF IInv, TypeOK, CloseOtpDialog
<1> QED BY <1>1, FrameStep DEF CloseOtpDialog, IInv

LEMMA ConfirmWithdrawStep ==
  ASSUME IInv, NEW t \in Tabs, NEW code \in 0..Len(mail), ConfirmWithdraw(t, code)
  PROVE  IInv'
<1>1. TypeOK
  BY DEF IInv
<1>2. tab[t].pend \in Data /\ code \in 0..MaxCodes
  BY <1>1, Bounds, Rows DEF TypeOK, ConfirmWithdraw
<1>3. /\ Send(Main(t), "withdraw", tab[t].pend, code, 0) /\ Click
      /\ UNCHANGED <<bal, tx, otp, mail, cool, tab, list, raced, crossed>>
  BY DEF ConfirmWithdraw
<1>4. call' \in [Slots -> CallType]
  BY <1>1, <1>2, <1>3, SentTyped, SlotsOf, SendArguments
<1>5. TypeOK'
  BY <1>1, <1>3, <1>4, ClickTyped DEF TypeOK
<1> QED BY <1>2, <1>3, <1>5, SendStep, SlotsOf, SendArguments

LEMMA WithdrawnStep ==
  ASSUME IInv, NEW t \in Tabs, Withdrawn(t)
  PROVE  IInv'
<1>1. call' \in [Slots -> CallType]
  BY CallEffect, NoCallTyped, SlotsOf DEF IInv, Withdrawn
<1>2. TypeOK'
  BY <1>1 DEF IInv, TypeOK, Withdrawn, NoTab
<1> QED BY <1>2, ForgetStep, SlotsOf DEF Withdrawn, IInv

LEMMA WithdrawFailedStep ==
  ASSUME IInv, NEW t \in Tabs, WithdrawFailed(t)
  PROVE  IInv'
<1>1. call' \in [Slots -> CallType]
  BY CallEffect, NoCallTyped, SlotsOf DEF IInv, WithdrawFailed
<1>2. TypeOK'
  BY <1>1 DEF IInv, TypeOK, WithdrawFailed
<1> QED BY <1>2, ForgetStep, SlotsOf DEF WithdrawFailed, IInv

-----------------------------------------------------------------------------
(* POST /wallet/withdraw/otp/request *)

LEMMA OtpCheckStep ==
  ASSUME IInv, NEW s \in Slots, OtpCheck(s)
  PROVE  IInv'
<1>0. TypeOK /\ call[s] \in CallType
  BY DEF IInv, TypeOK
<1> DEFINE pc == IF bal < call[s].data.amt \/ cool THEN "failed" ELSE "read"
           rec == [call[s] EXCEPT !.pc = pc]
<1>1. /\ call' = [call EXCEPT ![s] = rec] /\ call[s].kind = "otp" /\ pc \in Pcs
      /\ UNCHANGED <<bal, tx, otp, mail, cool, tab, list, raced, crossed, clicks>>
  BY DEF OtpCheck, To, At, Pcs
<1> HIDE DEF pc
<1>2. rec \in CallType /\ rec.kind = "otp" /\ rec.data = call[s].data
  BY <1>0, <1>1, ToRecord
<1> HIDE DEF rec
<1>3. call' \in [Slots -> CallType]
  BY <1>0, <1>1, <1>2, CallEffect
<1>4. TypeOK'
  BY <1>0, <1>1, <1>3 DEF TypeOK
<1>5. CallOK(rec) /\ ~Deciding(rec) /\ \A c \in DOMAIN mail : ~Burning(rec, c) /\ ~Has(rec, c)
  BY <1>1, <1>2 DEF IInv, CallOK, Decisions, Deciding, Burning, Has
<1>6. list' \subseteq DOMAIN tx
  BY <1>1 DEF IInv
<1> QED BY <1>1, <1>2, <1>4, <1>5, <1>6, CallStep

(* A new code is nobody's yet; the one it takes the place of is gone or    *)
(* raced for.                                                              *)
LEMMA OtpStoreStep ==
  ASSUME IInv, NEW s \in Slots, OtpStore(s)
  PROVE  IInv'
<1>0. TypeOK /\ call[s] \in CallType
  BY DEF IInv, TypeOK
<1> DEFINE rec == [call[s] EXCEPT !.pc = "ok"]
           n == Len(mail) + 1
<1>1. /\ call' = [call EXCEPT ![s] = rec] /\ call[s].kind = "otp" /\ Len(mail) < MaxCodes
      /\ mail' = Append(mail, call[s].data) /\ cool' = TRUE /\ raced' = RacedWith(s)
      /\ otp' = [code |-> n, data |-> call[s].data, tries |-> 0]
      /\ UNCHANGED <<bal, tx, tab, list, crossed, clicks>>
  BY DEF OtpStore, To, At
<1>2. rec \in CallType /\ rec.kind = "otp" /\ rec.data = call[s].data
  BY <1>0, <1>1, ToRecord DEF Pcs
<1> HIDE DEF rec
<1>3. call[s].data \in Data
  BY <1>1 DEF IInv, CallOK
<1>4. mail \in Seq(Data) /\ Len(mail) \in Nat /\ DOMAIN mail = 1..Len(mail)
  BY <1>0, Rows DEF TypeOK
<1>5. /\ mail' \in Seq(Data) /\ Len(mail') = n /\ mail'[n] = call[s].data
      /\ DOMAIN mail' = 1..n /\ \A c \in 1..Len(mail) : mail'[c] = mail[c]
  BY <1>1, <1>3, <1>4, AppendProperties, LenProperties
<1>6. DOMAIN mail \subseteq DOMAIN mail' /\ n \in DOMAIN mail' \ DOMAIN mail
      /\ (\A c \in DOMAIN mail : mail'[c] = mail[c]) /\ DOMAIN mail' = DOMAIN mail \cup {n}
  BY <1>4, <1>5
<1>7. n \in 1..MaxCodes /\ Len(mail') <= MaxCodes /\ n # 0
  BY <1>1, <1>4, <1>5, Bounds
<1>8. /\ call' \in [Slots -> CallType] /\ call'[s] = rec
      /\ \A r \in Slots : r # s => call'[r] = call[r]
  BY <1>0, <1>1, <1>2, CallEffect
<1>9. otp' \in OtpType
  BY <1>1, <1>3, <1>7 DEF OtpType, MaxTries
<1>10. raced' \subseteq Codes /\ raced \subseteq raced'
  <2>1. otp.code \in 0..MaxCodes /\ call[s].seen.code \in 0..MaxCodes
    BY <1>0 DEF TypeOK, CallType, OtpType
  <2>2. \A c \in 0..MaxCodes : Holding(c, s) # {} => c \in Codes
    BY Bounds DEF Holding, Codes
  <2> QED BY <1>0, <1>1, <2>1, <2>2 DEF RacedWith, TypeOK
<1>11. TypeOK'
  BY <1>0, <1>1, <1>5, <1>7, <1>8, <1>9, <1>10 DEF TypeOK
<1>12. list' \subseteq DOMAIN tx' /\ SeenOK(otp)'
       /\ \A i \in DOMAIN tx' : tx'[i].code \in DOMAIN mail' /\ tx'[i].amt = mail'[tx'[i].code].amt
  BY <1>1, <1>5, <1>6 DEF IInv, SeenOK
<1>13. \A r \in Slots : CallOK(call[r])'
  <2> SUFFICES ASSUME NEW r \in Slots PROVE CallOK(call[r])'
    OBVIOUS
  <2>1. PICK k : k = call'[r]
    OBVIOUS
  <2>2. CallOK(k)
    BY <1>1, <1>2, <1>3, <1>8, <2>1 DEF IInv, CallOK, Decisions
  <2> QED BY <1>1, <1>6, <2>1, <2>2 DEF CallOK, SeenOK, LastTry, RightCode, AmountBound
<1>14. OneDecider'
  BY <1>2, <1>8 DEF IInv, OneDecider, Deciding, Decisions
<1>15. CodesOK'
  <2> SUFFICES ASSUME NEW c \in DOMAIN mail', c \notin raced'
               PROVE  OneUse(c)' /\ (Used(c)' => Gone(c)')
    BY DEF CodesOK
  <2>1. \A r \in Slots : /\ Burning(call'[r], c) => Burning(call[r], c)
                         /\ Has(call'[r], c) => Has(call[r], c)
    BY <1>1, <1>2, <1>8 DEF Burning, Has
  <2>0. tx' = tx /\ otp'.code = n
    BY <1>1
  <2>2. CASE c = n
    <3>1. \A i \in DOMAIN tx' : tx'[i].code # c
      BY <2>0, <1>6, <2>2 DEF IInv
    <3>2. \A r \in Slots : ~Burning(call[r], c)
      BY <1>6, <2>2 DEF IInv, Burning, CallOK, RightCode, SeenOK
    <3> QED BY <2>0, <2>1, <3>1, <3>2 DEF OneUse, Used, Burning
  <2>3. CASE c # n
    <3>1. OneUse(c) /\ (Used(c) => Gone(c))
      BY <1>6, <1>10, <2>3 DEF IInv, CodesOK
    <3>2. OneUse(c)'
      BY <2>0, <2>1, <3>1 DEF OneUse, Burning
    <3>3. Used(c)' => Used(c)
      BY <2>0, <2>1 DEF Used, Burning
    <3>4. Gone(c) => Gone(c)'
      BY <2>0, <2>1, <2>3 DEF Gone, Has
    <3> QED BY <3>1, <3>2, <3>3, <3>4
  <2> QED BY <2>2, <2>3
<1> QED BY <1>11, <1>12, <1>13, <1>14, <1>15 DEF IInv

LEMMA CooldownEndsStep ==
  ASSUME IInv, CooldownEnds
  PROVE  IInv'
<1>1. TypeOK'
  BY DEF IInv, TypeOK, CooldownEnds
<1> QED BY <1>1, FrameStep DEF CooldownEnds, IInv

LEMMA CodeExpiresStep ==
  ASSUME IInv, CodeExpires
  PROVE  IInv'
<1>1. TypeOK'
  BY NoOtpTyped DEF IInv, TypeOK, CodeExpires
<1> QED BY <1>1, FrameStep DEF CodeExpires, IInv

-----------------------------------------------------------------------------
(* POST /wallet/withdraw *)

LEMMA WithdrawReadStep ==
  ASSUME IInv, NEW s \in Slots, WithdrawRead(s)
  PROVE  IInv'
<1>0. TypeOK /\ call[s] \in CallType /\ bal \in Nat /\ otp \in OtpType
  BY DEF IInv, TypeOK
<1> DEFINE pc == IF otp = NoOtp THEN "failed" ELSE "read"
           rec == [call[s] EXCEPT !.snap = bal, !.seen = otp, !.pc = pc]
<1>1. /\ call' = [call EXCEPT ![s] = rec] /\ call[s].kind = "withdraw" /\ pc \in Pcs
      /\ UNCHANGED <<bal, tx, otp, mail, cool, tab, list, raced, crossed, clicks>>
  BY DEF WithdrawRead, At, Pcs
<1>2. pc \in {"failed", "read"} /\ (pc = "read" => otp # NoOtp)
  OBVIOUS
<1> HIDE DEF pc
<1>3. /\ rec \in CallType /\ rec.kind = "withdraw" /\ rec.data = call[s].data
      /\ rec.pc = pc /\ rec.seen = otp
  BY <1>0, <1>1 DEF CallType, Pcs
<1> HIDE DEF rec
<1>4. call' \in [Slots -> CallType]
  BY <1>0, <1>1, <1>3, CallEffect
<1>5. TypeOK'
  BY <1>0, <1>1, <1>4 DEF TypeOK
<1>6. CallOK(rec)
  BY <1>1, <1>2, <1>3 DEF IInv, CallOK, Decisions
<1>7. ~Deciding(rec) /\ \A c \in DOMAIN mail : ~Burning(rec, c) /\ (Has(rec, c) => otp.code = c)
  BY <1>2, <1>3 DEF Decisions, Deciding, Burning, Has
<1>8. list' \subseteq DOMAIN tx
  BY <1>1 DEF IInv
<1> QED BY <1>1, <1>3, <1>5, <1>6, <1>7, <1>8, CallStep

(* Who asks for a code's lifetime or deletes it has read it. *)
LEMMA RacedTyped ==
  ASSUME TypeOK, NEW s \in Slots
  PROVE  RacedWith(s) \subseteq Codes
<1>1. otp.code \in 0..MaxCodes /\ call[s].seen.code \in 0..MaxCodes
  BY DEF TypeOK, CallType, OtpType
<1>2. \A c \in 0..MaxCodes : Holding(c, s) # {} => c \in Codes
  BY Bounds DEF Holding, Codes
<1> QED BY <1>1, <1>2 DEF RacedWith, TypeOK

LEMMA WrongCodeStep ==
  ASSUME IInv, NEW s \in Slots, WrongCode(s)
  PROVE  IInv'
<1>0. TypeOK /\ call[s] \in CallType
  BY DEF IInv, TypeOK
<1>1. /\ call[s].kind = "withdraw" /\ call[s].pc = "read"
      /\ UNCHANGED <<bal, tx, mail, cool, tab, list, crossed, clicks>>
  BY DEF WrongCode, At
<1>2. CASE otp' = NoOtp /\ raced' = RacedWith(s) /\ To(s, "failed")
  <2> DEFINE rec == [call[s] EXCEPT !.pc = "failed"]
  <2>1. /\ rec \in CallType /\ rec.kind = "withdraw" /\ rec.pc = "failed"
        /\ rec.data = call[s].data /\ call' = [call EXCEPT ![s] = rec]
    BY <1>0, <1>1, <1>2, ToRecord DEF Pcs, To
  <2> HIDE DEF rec
  <2>2. call' \in [Slots -> CallType]
    BY <1>0, <2>1, CallEffect
  <2>3. TypeOK'
    BY <1>0, <1>1, <1>2, <2>2, NoOtpTyped, RacedTyped DEF TypeOK
  <2>4. CallOK(rec)
    BY <1>1, <2>1 DEF IInv, CallOK, Decisions
  <2> QED BY <1>1, <1>2, <2>1, <2>3, <2>4, RedisStep
<1>3. CASE /\ ~LastTry(call[s]) /\ To(s, IF otp = NoOtp THEN "failed" ELSE "wrong")
           /\ UNCHANGED <<otp, raced>>
  <2> DEFINE pc == IF otp = NoOtp THEN "failed" ELSE "wrong"
             rec == [call[s] EXCEPT !.pc = pc]
  <2>1. pc \in {"failed", "wrong"} /\ pc \in Pcs /\ call' = [call EXCEPT ![s] = rec]
    BY <1>3 DEF Pcs, To
  <2> HIDE DEF pc
  <2>2. /\ rec \in CallType /\ rec.kind = "withdraw" /\ rec.pc = pc
        /\ rec.data = call[s].data /\ rec.seen = call[s].seen
    BY <1>0, <1>1, <2>1, ToRecord
  <2> HIDE DEF rec
  <2>3. call' \in [Slots -> CallType]
    BY <1>0, <2>1, <2>2, CallEffect
  <2>4. TypeOK'
    BY <1>0, <1>1, <1>3, <2>3 DEF TypeOK
  <2>5. CallOK(rec)
    BY <1>1, <1>3, <2>1, <2>2 DEF IInv, CallOK, Decisions, LastTry
  <2>6. ~Deciding(rec) /\ \A c \in DOMAIN mail : ~Burning(rec, c) /\ (Has(rec, c) => Has(call[s], c))
    BY <1>1, <2>1, <2>2 DEF Decisions, Deciding, Burning, Has
  <2>7. list' \subseteq DOMAIN tx
    BY <1>1 DEF IInv
  <2> QED BY <1>1, <1>3, <2>1, <2>2, <2>4, <2>5, <2>6, <2>7, CallStep
<1> QED BY <1>2, <1>3 DEF WrongCode

LEMMA CountTryStep ==
  ASSUME IInv, NEW s \in Slots, CountTry(s)
  PROVE  IInv'
<1>0. TypeOK /\ call[s] \in CallType
  BY DEF IInv, TypeOK
<1> DEFINE rec == [call[s] EXCEPT !.pc = "failed"]
<1>1. /\ call[s].kind = "withdraw" /\ call[s].pc = "wrong" /\ raced' = RacedWith(s)
      /\ otp' = [call[s].seen EXCEPT !.tries = call[s].seen.tries + 1]
      /\ call' = [call EXCEPT ![s] = rec]
      /\ UNCHANGED <<bal, tx, mail, cool, tab, list, crossed, clicks>>
  BY DEF CountTry, At, To
<1>2. /\ rec \in CallType /\ rec.kind = "withdraw" /\ rec.pc = "failed"
      /\ rec.data = call[s].data
  BY <1>0, <1>1, ToRecord DEF Pcs
<1> HIDE DEF rec
<1>3. call' \in [Slots -> CallType]
  BY <1>0, <1>1, <1>2, CallEffect
<1>4. call[s].seen \in OtpType /\ ~LastTry(call[s])
  BY <1>0, <1>1, CallFields DEF IInv, CallOK
<1>5. /\ call[s].seen.tries + 1 \in 0..(MaxTries - 1)
  BY <1>4 DEF OtpType, LastTry, MaxTries
<1>6. /\ otp' \in OtpType /\ otp'.code = call[s].seen.code /\ otp'.data = call[s].seen.data
  BY <1>1, <1>4, <1>5 DEF OtpType
<1>7. TypeOK'
  BY <1>0, <1>1, <1>3, <1>6, RacedTyped DEF TypeOK
<1>8. CallOK(rec)
  BY <1>1, <1>2 DEF IInv, CallOK, Decisions
<1> QED BY <1>1, <1>2, <1>6, <1>7, <1>8, RedisStep

LEMMA RightCodeGivenStep ==
  ASSUME IInv, NEW s \in Slots, RightCodeGiven(s)
  PROVE  IInv'
<1>0. TypeOK /\ call[s] \in CallType
  BY DEF IInv, TypeOK
<1> DEFINE pc == IF AmountBound(call[s]) THEN "burnt" ELSE "failed"
           rec == [call[s] EXCEPT !.pc = pc]
<1>1. /\ call[s].kind = "withdraw" /\ call[s].pc = "read" /\ RightCode(call[s])
      /\ otp' = NoOtp /\ raced' = RacedWith(s) /\ call' = [call EXCEPT ![s] = rec]
      /\ UNCHANGED <<bal, tx, mail, cool, tab, list, crossed, clicks>>
  BY DEF RightCodeGiven, Burn, At, To
<1>2. /\ pc \in {"burnt", "failed"} /\ pc \in Pcs
      /\ pc = "burnt" => AmountBound(call[s])
  BY DEF Pcs
<1> HIDE DEF pc
<1>3. /\ rec \in CallType /\ rec.kind = "withdraw" /\ rec.pc = pc
      /\ rec.data = call[s].data /\ rec.seen = call[s].seen /\ rec.code = call[s].code
  BY <1>0, <1>1, <1>2, ToRecord
<1> HIDE DEF rec
<1>4. call' \in [Slots -> CallType]
  BY <1>0, <1>1, <1>3, CallEffect
<1>5. TypeOK'
  BY <1>0, <1>1, <1>4, NoOtpTyped, RacedTyped DEF TypeOK
<1>6. CallOK(rec)
  BY <1>1, <1>2, <1>3 DEF IInv, CallOK, Decisions, RightCode, AmountBound
<1>7. rec.pc \in {"failed", "burnt"} /\ rec.code = call[s].seen.code
  BY <1>1, <1>2, <1>3 DEF RightCode
<1> QED BY <1>1, <1>3, <1>5, <1>6, <1>7, RedisStep

(* The code a request has burnt becomes the code of the row. *)
LEMMA DebitStep ==
  ASSUME IInv, NEW s \in Slots, Debit(s)
  PROVE  IInv'
<1>0. TypeOK /\ call[s] \in CallType
  BY DEF IInv, TypeOK
<1> DEFINE k == call[s]
<1>1. /\ k.kind = "withdraw" /\ k.pc = "burnt" /\ Len(tx) < MaxTx
      /\ UNCHANGED <<otp, mail, cool, tab, list, raced, clicks>>
  BY DEF Debit, At
<1>2. CASE k.snap < k.data.amt /\ To(s, "failed") /\ UNCHANGED <<bal, tx, crossed>>
  <2> DEFINE rec == [call[s] EXCEPT !.pc = "failed"]
  <2>1. /\ rec \in CallType /\ rec.kind = "withdraw" /\ rec.pc = "failed"
        /\ rec.data = call[s].data /\ call' = [call EXCEPT ![s] = rec]
    BY <1>0, <1>1, <1>2, ToRecord DEF Pcs, To
  <2> HIDE DEF rec
  <2>2. call' \in [Slots -> CallType]
    BY <1>0, <2>1, CallEffect
  <2>3. TypeOK'
    BY <1>0, <1>1, <1>2, <2>2 DEF TypeOK
  <2>4. CallOK(rec) /\ ~Deciding(rec) /\ \A c \in DOMAIN mail : ~Burning(rec, c) /\ ~Has(rec, c)
    BY <1>1, <2>1 DEF IInv, CallOK, Decisions, Deciding, Burning, Has
  <2>5. list' \subseteq DOMAIN tx
    BY <1>1 DEF IInv
  <2> QED BY <1>1, <1>2, <2>1, <2>3, <2>4, <2>5, CallStep
<1>3. CASE /\ k.snap >= k.data.amt
           /\ bal' = k.snap - k.data.amt /\ crossed' = CrossedBy(s)
           /\ tx' = Append(tx, [amt |-> k.data.amt, dest |-> k.data.dest, st |-> "pending",
                                code |-> k.code])
           /\ To(s, "ok")
  <2> DEFINE rec == [call[s] EXCEPT !.pc = "ok"]
             row == [amt |-> k.data.amt, dest |-> k.data.dest, st |-> "pending", code |-> k.code]
             n == Len(tx) + 1
  <2>1. /\ rec \in CallType /\ rec.kind = "withdraw" /\ rec.pc = "ok"
        /\ rec.data = call[s].data /\ call' = [call EXCEPT ![s] = rec]
    BY <1>0, <1>1, <1>3, ToRecord DEF Pcs, To
  <2> HIDE DEF rec
  <2>2. /\ call' \in [Slots -> CallType] /\ call'[s] = rec
        /\ \A r \in Slots : r # s => call'[r] = call[r]
    BY <1>0, <2>1, CallEffect
  <2>3. /\ k.data \in Data /\ k.code \in DOMAIN mail /\ k.data.amt = mail[k.code].amt
    BY <1>1 DEF IInv, CallOK, SeenOK, RightCode, AmountBound
  <2>4. row \in TxType
    <3>1. k.code \in Codes
      BY <1>0, <2>3, Rows, Bounds DEF TypeOK, Codes
    <3> QED BY <2>3, <3>1 DEF TxType, Data
  <2>5. tx \in Seq(TxType) /\ Len(tx) \in Nat /\ DOMAIN tx = 1..Len(tx)
    BY <1>0, Rows DEF TypeOK
  <2>6. /\ tx' \in Seq(TxType) /\ Len(tx') = n /\ tx'[n] = row
        /\ DOMAIN tx' = 1..n /\ \A i \in 1..Len(tx) : tx'[i] = tx[i]
    BY <1>3, <2>4, <2>5, AppendProperties, LenProperties
  <2>7. /\ DOMAIN tx \subseteq DOMAIN tx' /\ DOMAIN tx' = DOMAIN tx \cup {n} /\ n \notin DOMAIN tx
        /\ \A i \in DOMAIN tx : tx'[i] = tx[i]
        /\ tx'[n].code = k.code /\ tx'[n].amt = k.data.amt
    BY <2>5, <2>6
  <2>8. bal' \in Nat /\ crossed' \in BOOLEAN /\ Len(tx') <= MaxTx
    <3>1. k.snap \in Nat /\ k.data.amt \in Nat
      BY <1>0, <2>3, Bounds DEF CallType, Data
    <3>2. crossed' \in BOOLEAN
      BY <1>0, <1>3 DEF TypeOK, CrossedBy
    <3>3. Len(tx') <= MaxTx
      BY <1>1, <2>5, <2>6, Bounds
    <3> QED BY <1>3, <3>1, <3>2, <3>3
  <2>9. TypeOK'
    BY <1>0, <1>1, <2>2, <2>6, <2>8 DEF TypeOK
  <2>10. list' \subseteq DOMAIN tx' /\ (otp' = NoOtp \/ SeenOK(otp)')
    BY <1>1, <2>7 DEF IInv, SeenOK
  <2>11. \A i \in DOMAIN tx' : tx'[i].code \in DOMAIN mail' /\ tx'[i].amt = mail'[tx'[i].code].amt
    <3> SUFFICES ASSUME NEW i \in DOMAIN tx'
                 PROVE  tx'[i].code \in DOMAIN mail /\ tx'[i].amt = mail[tx'[i].code].amt
      BY <1>1
    <3>1. CASE i = n
      BY <2>3, <2>7, <3>1
    <3>2. CASE i \in DOMAIN tx
      BY <2>7, <3>2 DEF IInv
    <3> QED BY <2>7, <3>1, <3>2
  <2>12. \A r \in Slots : CallOK(call[r])'
    <3> SUFFICES ASSUME NEW r \in Slots PROVE CallOK(call[r])'
      OBVIOUS
    <3>1. PICK j : j = call'[r]
      OBVIOUS
    <3>2. CallOK(j)
      BY <2>1, <2>2, <2>3, <3>1 DEF IInv, CallOK, Decisions
    <3> QED BY <1>1, <2>7, <3>1, <3>2 DEF CallOK, SeenOK, LastTry, RightCode, AmountBound
  <2>13. OneDecider'
    BY <2>1, <2>2 DEF IInv, OneDecider, Deciding, Decisions
  <2>14. CodesOK'
    <3> SUFFICES ASSUME NEW c \in DOMAIN mail, c \notin raced
                 PROVE  OneUse(c)' /\ (Used(c)' => Gone(c)')
      BY <1>1 DEF CodesOK
    <3>1. OneUse(c) /\ (Used(c) => Gone(c))
      BY DEF IInv, CodesOK
    <3>2. \A r \in Slots : /\ Burning(call'[r], c) => r # s /\ Burning(call[r], c)
                           /\ Has(call'[r], c) => Has(call[r], c)
      BY <2>1, <2>2 DEF Burning, Has
    <3>3. otp' = otp
      BY <1>1
    <3>4. Gone(c) => Gone(c)'
      BY <3>2, <3>3 DEF Gone, Has
    <3>5. CASE c = k.code
      <4>1. Burning(call[s], c)
        BY <1>1, <3>5 DEF Burning
      <4>2. Used(c) /\ (\A i \in DOMAIN tx : tx[i].code # c)
            /\ \A r \in Slots : Burning(call[r], c) => r = s
        BY <3>1, <4>1 DEF Used, OneUse
      <4>3. \A i \in DOMAIN tx' : tx'[i].code = c => i = n
        BY <2>7, <4>2
      <4>4. \A r \in Slots : ~Burning(call'[r], c)
        BY <3>2, <4>2
      <4>5. OneUse(c)'
        BY <4>3, <4>4 DEF OneUse, Burning
      <4> QED BY <3>1, <3>4, <4>2, <4>5
    <3>6. CASE c # k.code
      <4>1. \A i \in DOMAIN tx' : tx'[i].code = c => i \in DOMAIN tx /\ tx[i].code = c
        BY <2>7, <3>6
      <4>2. OneUse(c)'
        BY <3>1, <3>2, <4>1 DEF OneUse, Burning
      <4>3. Used(c)' => Used(c)
        BY <3>2, <4>1 DEF Used, Burning
      <4> QED BY <3>1, <3>4, <4>2, <4>3
    <3> QED BY <3>5, <3>6
  <2> QED BY <2>9, <2>10, <2>11, <2>12, <2>13, <2>14 DEF IInv
<1> QED BY <1>2, <1>3 DEF Debit

-----------------------------------------------------------------------------
(* The owner's page *)

LEMMA PendingRows == ASSUME IInv PROVE Pending \subseteq DOMAIN tx /\ Pending \subseteq 1..MaxTx
<1>1. TypeOK
  BY DEF IInv
<1> QED BY <1>1, Rows, Bounds DEF Pending, TypeOK

LEMMA RefetchAdminTxsStep ==
  ASSUME IInv, RefetchAdminTxs
  PROVE  IInv'
<1>1. TypeOK'
  BY PendingRows DEF IInv, TypeOK, RefetchAdminTxs
<1> QED BY <1>1, PendingRows, FrameStep DEF RefetchAdminTxs

LEMMA DecideStep ==
  ASSUME IInv, NEW a \in Admins, NEW i \in 1..MaxTx, NEW st \in Decisions, Decide(a, i, st)
  PROVE  IInv'
<1>0. TypeOK
  BY DEF IInv
<1>1. /\ Send(Main(a), st, NoData, 0, i) /\ Click /\ i \in list /\ i \in 0..MaxTx
      /\ UNCHANGED <<bal, tx, otp, mail, cool, tab, list, raced, crossed>>
  BY DEF Decide
<1>2. call' \in [Slots -> CallType]
  BY <1>0, <1>1, SentTyped, SlotsOf, SendArguments
<1>3. TypeOK'
  BY <1>0, <1>1, <1>2, ClickTyped DEF TypeOK
<1>4. i \in DOMAIN tx /\ st \in Kinds /\ ~(st \in {"otp", "withdraw"})
  BY <1>1 DEF IInv, Decisions, Kinds
<1> QED BY <1>1, <1>3, <1>4, SendStep, SlotsOf, SendArguments

LEMMA DecisionReadStep ==
  ASSUME IInv, NEW a \in Admins, DecisionRead(a)
  PROVE  IInv'
<1> DEFINE s == Main(a)
           pc == IF StillPending(call[s].row) THEN "read" ELSE "failed"
           rec == [call[s] EXCEPT !.snap = bal, !.pc = pc]
<1>0. TypeOK /\ s \in Slots /\ call[s] \in CallType /\ bal \in Nat
  BY SlotsOf DEF IInv, TypeOK
<1>1. /\ call' = [call EXCEPT ![s] = rec] /\ call[s].kind \in Decisions /\ pc \in Pcs
      /\ ~Locked(call[s].row, s)
      /\ UNCHANGED <<bal, tx, otp, mail, cool, tab, list, raced, crossed, clicks>>
  BY DEF DecisionRead, Pcs, Decisions
<1>2. pc \in {"failed", "read"} /\ (pc = "read" => tx[call[s].row].st = "pending")
  BY DEF StillPending
<1> HIDE DEF pc, s
<1>3. rec \in CallType /\ rec.kind = call[s].kind /\ rec.pc = pc /\ rec.row = call[s].row
  BY <1>0, <1>1 DEF CallType, Pcs
<1> HIDE DEF rec
<1>4. call' \in [Slots -> CallType]
  BY <1>0, <1>1, <1>3, CallEffect
<1>5. TypeOK'
  BY <1>0, <1>1, <1>4 DEF TypeOK
<1>6. call[s].row \in DOMAIN tx
  BY <1>0, <1>1 DEF IInv, CallOK
<1>7. CallOK(rec)
  BY <1>1, <1>2, <1>3, <1>6 DEF CallOK, Decisions
<1>8. \A c \in DOMAIN mail : ~Burning(rec, c) /\ ~Has(rec, c)
  BY <1>1, <1>3 DEF Decisions, Burning, Has
<1>9. list' \subseteq DOMAIN tx /\ ~Locked(rec.row, s)
  BY <1>1, <1>3 DEF IInv
<1> QED BY <1>0, <1>1, <1>3, <1>5, <1>7, <1>8, <1>9, CallStep

(* The row that is decided is held by nobody else; codes and amounts stay. *)
LEMMA DecisionWriteStep ==
  ASSUME IInv, NEW a \in Admins, DecisionWrite(a)
  PROVE  IInv'
<1> DEFINE s == Main(a)
           k == call[s]
           rec == [call[s] EXCEPT !.pc = "ok"]
<1>0. TypeOK /\ s \in Slots /\ call[s] \in CallType /\ bal \in Nat
  BY SlotsOf DEF IInv, TypeOK
<1>1. /\ call' = [call EXCEPT ![s] = rec] /\ k.kind \in Decisions /\ k.pc = "read"
      /\ tx' = [tx EXCEPT ![k.row].st = k.kind]
      /\ \/ bal' = Refund(k) /\ crossed' = CrossedBy(s)
         \/ UNCHANGED <<bal, crossed>>
      /\ UNCHANGED <<otp, mail, cool, tab, list, raced, clicks>>
  BY DEF DecisionWrite, Decisions, To
<1> HIDE DEF s
<1>2. rec \in CallType /\ rec.kind = k.kind /\ rec.pc = "ok" /\ rec.row = k.row
  BY <1>0, ToRecord DEF Pcs
<1> HIDE DEF rec
<1>3. /\ call' \in [Slots -> CallType] /\ call'[s] = rec
      /\ \A r \in Slots : r # s => call'[r] = call[r]
  BY <1>0, <1>1, <1>2, CallEffect
<1>4. k.row \in DOMAIN tx
  BY <1>0, <1>1 DEF IInv, CallOK
<1>5. tx \in Seq(TxType) /\ tx[k.row] \in TxType
  BY <1>0, <1>4, Rows DEF TypeOK
<1>6. [tx[k.row] EXCEPT !.st = k.kind] \in TxType
  BY <1>1, <1>5 DEF TxType, Decisions
<1>7. /\ tx' \in Seq(TxType) /\ Len(tx') = Len(tx) /\ DOMAIN tx' = DOMAIN tx
      /\ \A i \in DOMAIN tx : i # k.row => tx'[i] = tx[i]
      /\ tx'[k.row] = [tx[k.row] EXCEPT !.st = k.kind]
  BY <1>1, <1>4, <1>5, <1>6, ExceptSeq, LenProperties
<1>8. \A i \in DOMAIN tx : tx'[i].code = tx[i].code /\ tx'[i].amt = tx[i].amt
  BY <1>5, <1>7 DEF TxType
<1>9. bal' \in Nat /\ crossed' \in BOOLEAN
  <2>1. k.snap \in Nat /\ tx[k.row].amt \in Nat
    BY <1>0, <1>5, Bounds DEF CallType, TxType
  <2>2. bal' \in Nat
    BY <1>0, <1>1, <2>1 DEF Refund
  <2>3. crossed' \in BOOLEAN
    BY <1>0, <1>1 DEF TypeOK, CrossedBy
  <2> QED BY <2>2, <2>3
<1>10. TypeOK'
  BY <1>0, <1>1, <1>3, <1>7, <1>9 DEF TypeOK
<1>11. list' \subseteq DOMAIN tx' /\ (otp' = NoOtp \/ SeenOK(otp)')
       /\ \A i \in DOMAIN tx' : tx'[i].code \in DOMAIN mail' /\ tx'[i].amt = mail'[tx'[i].code].amt
  BY <1>1, <1>7, <1>8 DEF IInv, SeenOK
<1>12. \A r \in Slots : CallOK(call[r])'
  <2> SUFFICES ASSUME NEW r \in Slots PROVE CallOK(call[r])'
    OBVIOUS
  <2>1. PICK j : j = call'[r]
    OBVIOUS
  <2>2. CASE r = s
    BY <1>1, <1>2, <1>3, <1>4, <1>7, <2>1, <2>2 DEF CallOK, Decisions
  <2>3. CASE r # s
    <3>1. j = call[r] /\ CallOK(j)
      BY <1>3, <2>1, <2>3 DEF IInv
    <3>2. Deciding(j) => j.row # k.row
      BY <1>0, <1>1, <2>3, <3>1 DEF IInv, OneDecider, Deciding
    <3>3. Deciding(j) => tx'[j.row].st = "pending"
      BY <1>7, <3>1, <3>2 DEF CallOK, Deciding
    <3> QED BY <1>1, <1>7, <2>1, <3>1, <3>3 DEF CallOK, Deciding, SeenOK, LastTry, RightCode, AmountBound
  <2> QED BY <2>2, <2>3
<1>13. OneDecider'
  BY <1>2, <1>3 DEF IInv, OneDecider, Deciding
<1>14. CodesOK'
  <2> SUFFICES ASSUME NEW c \in DOMAIN mail, c \notin raced
               PROVE  OneUse(c)' /\ (Used(c)' => Gone(c)')
    BY <1>1 DEF CodesOK
  <2>1. OneUse(c) /\ (Used(c) => Gone(c))
    BY DEF IInv, CodesOK
  <2>2. \A r \in Slots : /\ Burning(call'[r], c) => Burning(call[r], c)
                         /\ Has(call'[r], c) => Has(call[r], c)
    BY <1>2, <1>3 DEF Burning, Has
  <2>3. otp' = otp
    BY <1>1
  <2>4. OneUse(c)'
    BY <1>7, <1>8, <2>1, <2>2 DEF OneUse, Burning
  <2>5. Used(c)' => Used(c)
    BY <1>7, <1>8, <2>2 DEF Used, Burning
  <2>6. Gone(c) => Gone(c)'
    BY <2>2, <2>3 DEF Gone, Has
  <2> QED BY <2>1, <2>4, <2>5, <2>6
<1> QED BY <1>10, <1>11, <1>12, <1>13, <1>14 DEF IInv

LEMMA DecidedStep ==
  ASSUME IInv, NEW a \in Admins, Decided(a)
  PROVE  IInv'
<1>1. call' \in [Slots -> CallType]
  BY CallEffect, NoCallTyped, SlotsOf DEF IInv, Decided
<1>2. list' \subseteq DOMAIN tx /\ list' \subseteq 1..MaxTx
  BY PendingRows DEF Decided, IInv, TypeOK
<1>3. TypeOK'
  BY <1>1, <1>2 DEF IInv, TypeOK, Decided
<1> QED BY <1>2, <1>3, ForgetStep, SlotsOf DEF Decided

-----------------------------------------------------------------------------
(* The balance and the withdrawals *)

(* Whoever is about to write a balance has read the one that stands.       *)
MoneyOK == ~crossed => /\ bal + NotRejected = Start
                       /\ \A s \in Slots : Pays(s) => call[s].snap = bal

RowUnits(i, amt) == {i} \X (1..amt)

LEMMA UnitOfRows ==
  ASSUME NEW u
  PROVE  /\ u \in Units <=> /\ u = <<u[1], u[2]>> /\ u[1] \in DOMAIN tx /\ u[2] \in Amounts
                           /\ tx[u[1]].st # "rejected" /\ u[2] <= tx[u[1]].amt
         /\ \A i, amt : u \in RowUnits(i, amt)
                         <=> u = <<u[1], u[2]>> /\ u[1] = i /\ u[2] \in 1..amt
BY DEF Units, RowUnits

LEMMA UnitOfRowsNext ==
  ASSUME NEW u
  PROVE  u \in Units' <=> /\ u = <<u[1], u[2]>> /\ u[1] \in DOMAIN tx' /\ u[2] \in Amounts
                         /\ tx'[u[1]].st # "rejected" /\ u[2] <= tx'[u[1]].amt
BY DEF Units

LEMMA RowUnitsCount ==
  ASSUME NEW i, NEW amt \in Nat
  PROVE  IsFiniteSet(RowUnits(i, amt)) /\ Cardinality(RowUnits(i, amt)) = amt
<1>1. IsFiniteSet({i}) /\ Cardinality({i}) = 1
  BY FS_Singleton
<1>2. IsFiniteSet(1..amt) /\ Cardinality(1..amt) = amt
  BY FS_Interval
<1>3. /\ IsFiniteSet({i} \X (1..amt))
      /\ Cardinality({i} \X (1..amt)) = Cardinality({i}) * Cardinality(1..amt)
  BY <1>1, <1>2, FS_Product
<1> QED BY <1>1, <1>2, <1>3 DEF RowUnits

LEMMA UnitsFinite ==
  ASSUME TypeOK
  PROVE  IsFiniteSet(Units) /\ NotRejected \in Nat
<1>1. IsFiniteSet(DOMAIN tx)
  BY Rows, FS_Interval
<1>2. IsFiniteSet(Amounts)
  BY Bounds, FS_Interval DEF Amounts
<1>3. IsFiniteSet((DOMAIN tx) \X Amounts)
  BY <1>1, <1>2, FS_Product
<1>4. Units \subseteq (DOMAIN tx) \X Amounts
  BY DEF Units
<1>5. IsFiniteSet(Units)
  BY <1>3, <1>4, FS_Subset
<1> QED BY <1>5, FS_CardinalityType DEF NotRejected

(* A set of units that gains those of one row gains its amount. *)
LEMMA UnitsGain ==
  ASSUME NEW U, NEW V, NEW i, NEW amt \in Nat, IsFiniteSet(U), V = U \cup RowUnits(i, amt),
         \A u \in U : u \notin RowUnits(i, amt)
  PROVE  Cardinality(V) = Cardinality(U) + amt
<1>1. IsFiniteSet(RowUnits(i, amt)) /\ Cardinality(RowUnits(i, amt)) = amt
  BY RowUnitsCount
<1>2. U \cap RowUnits(i, amt) = {}
  OBVIOUS
<1>3. Cardinality(U \cap RowUnits(i, amt)) = 0
  BY <1>2, FS_EmptySet
<1>4. Cardinality(V) = Cardinality(U) + Cardinality(RowUnits(i, amt))
                       - Cardinality(U \cap RowUnits(i, amt))
  BY <1>1, FS_Union
<1>5. Cardinality(U) \in Nat
  BY FS_CardinalityType
<1> QED BY <1>1, <1>3, <1>4, <1>5

(* Only one request moves, and no money: if it is to write a balance, it   *)
(* has read this one.                                                      *)
LEMMA MoneyFrame ==
  ASSUME TypeOK, MoneyOK, UNCHANGED <<bal, tx, crossed>>, NEW s \in Slots, NEW rec \in CallType,
         call' = [call EXCEPT ![s] = rec],
         rec.kind \in {"withdraw", "rejected"} /\ rec.pc \in {"read", "wrong", "burnt"}
           => rec.snap = bal \/ (Pays(s) /\ rec.snap = call[s].snap)
  PROVE  MoneyOK'
<1>1. call'[s] = rec /\ \A r \in Slots : r # s => call'[r] = call[r]
  BY CallEffect
<1>2. NotRejected' = NotRejected
  BY DEF NotRejected, Units
<1>3. ASSUME ~crossed, NEW r \in Slots, Pays(r)'
      PROVE  call'[r].snap = bal
  <2>1. CASE r = s
    BY <1>1, <1>3, <2>1 DEF MoneyOK, Pays
  <2>2. CASE r # s
    BY <1>1, <1>3, <2>2 DEF MoneyOK, Pays
  <2> QED BY <2>1, <2>2
<1> QED BY <1>2, <1>3 DEF MoneyOK

LEMMA MoneySent ==
  ASSUME TypeOK, MoneyOK, UNCHANGED <<bal, tx, crossed>>, NEW s \in Slots, NEW kind \in Kinds,
         NEW d \in Data \cup {NoData}, NEW code \in 0..MaxCodes, NEW row \in 0..MaxTx,
         Send(s, kind, d, code, row)
  PROVE  MoneyOK'
<1> DEFINE rec == [NoCall EXCEPT !.kind = kind, !.pc = "sent", !.data = d, !.code = code,
                                 !.row = row]
<1>1. rec \in CallType /\ rec.pc = "sent"
  BY NoCallTyped, NoOtpTyped, Bounds DEF NoCall, CallType, Kinds
<1>2. call' = [call EXCEPT ![s] = rec]
  BY DEF Send
<1> HIDE DEF rec
<1> QED BY <1>1, <1>2, MoneyFrame

LEMMA MoneyForgotten ==
  ASSUME TypeOK, MoneyOK, UNCHANGED <<bal, tx, crossed>>, NEW s \in Slots,
         call' = [call EXCEPT ![s] = NoCall]
  PROVE  MoneyOK'
BY NoCallTyped, MoneyFrame

LEMMA MoneyTo ==
  ASSUME TypeOK, MoneyOK, UNCHANGED <<bal, tx, crossed>>, NEW s \in Slots, NEW pc \in Pcs,
         To(s, pc), pc \in {"ok", "failed"} \/ Pays(s) \/ call[s].kind = "otp"
  PROVE  MoneyOK'
<1> DEFINE rec == [call[s] EXCEPT !.pc = pc]
<1>1. call[s] \in CallType /\ call' = [call EXCEPT ![s] = rec]
  BY DEF TypeOK, To
<1>2. rec \in CallType /\ rec.pc = pc /\ rec.kind = call[s].kind /\ rec.snap = call[s].snap
  BY <1>1, ToRecord
<1> HIDE DEF rec
<1> QED BY <1>1, <1>2, MoneyFrame

(* The debit: if no other request is about to write a balance, it takes    *)
(* what the row asks for.                                                  *)
LEMMA MoneyDebit ==
  ASSUME IInv, MoneyOK, NEW s \in Slots, Debit(s)
  PROVE  MoneyOK'
<1>0. TypeOK /\ call[s] \in CallType /\ bal \in Nat
  BY DEF IInv, TypeOK
<1> DEFINE k == call[s]
<1>1. k.kind = "withdraw" /\ k.pc = "burnt"
  BY DEF Debit, At
<1>2. CASE k.snap < k.data.amt /\ To(s, "failed") /\ UNCHANGED <<bal, tx, crossed>>
  BY <1>0, <1>2, MoneyTo DEF Pcs
<1>3. CASE /\ k.snap >= k.data.amt
           /\ bal' = k.snap - k.data.amt /\ crossed' = CrossedBy(s)
           /\ tx' = Append(tx, [amt |-> k.data.amt, dest |-> k.data.dest, st |-> "pending",
                                code |-> k.code])
           /\ To(s, "ok")
  <2> SUFFICES ASSUME ~crossed'
               PROVE  /\ bal' + NotRejected' = Start
                      /\ \A r \in Slots : Pays(r)' => call'[r].snap = bal'
    BY DEF MoneyOK
  <2> DEFINE row == [amt |-> k.data.amt, dest |-> k.data.dest, st |-> "pending", code |-> k.code]
             n == Len(tx) + 1
             rec == [call[s] EXCEPT !.pc = "ok"]
  <2>1. ~crossed /\ \A r \in Slots : r # s => ~Pays(r)
    BY <1>3 DEF CrossedBy
  <2>2. k.snap = bal /\ bal + NotRejected = Start
    BY <1>1, <2>1 DEF MoneyOK, Pays
  <2>3. call' = [call EXCEPT ![s] = rec]
    BY <1>3 DEF To
  <2>4. rec \in CallType /\ rec.pc = "ok"
    BY <1>0, ToRecord DEF Pcs
  <2> HIDE DEF rec
  <2>5. call'[s] = rec /\ \A r \in Slots : r # s => call'[r] = call[r]
    BY <1>0, <2>3, <2>4, CallEffect
  <2>6. \A r \in Slots : ~Pays(r)'
    BY <2>1, <2>4, <2>5 DEF Pays
  <2>7. k.data \in Data /\ k.data.amt \in Amounts /\ k.data.amt \in Nat
    BY <1>1, Bounds DEF IInv, CallOK, Data
  <2>8. k.code \in Codes
    BY <1>0, <1>1, Rows, Bounds DEF IInv, TypeOK, CallOK, SeenOK, RightCode, Codes
  <2>9. row \in TxType
    BY <2>7, <2>8 DEF TxType, Data
  <2>10. tx \in Seq(TxType) /\ Len(tx) \in Nat /\ DOMAIN tx = 1..Len(tx)
    BY <1>0, Rows DEF TypeOK
  <2>11. /\ DOMAIN tx' = 1..n /\ tx'[n] = row
         /\ \A i \in 1..Len(tx) : tx'[i] = tx[i]
    BY <1>3, <2>9, <2>10, AppendProperties, LenProperties
  <2>12. /\ DOMAIN tx' = DOMAIN tx \cup {n} /\ n \notin DOMAIN tx
         /\ tx'[n].st = "pending" /\ tx'[n].amt = k.data.amt
         /\ \A i \in DOMAIN tx : tx'[i] = tx[i]
    BY <2>10, <2>11
  <2>13. Units' = Units \cup RowUnits(n, k.data.amt)
    <3> SUFFICES ASSUME NEW u PROVE u \in Units' <=> u \in Units \/ u \in RowUnits(n, k.data.amt)
      OBVIOUS
    <3>1. \A j \in 1..k.data.amt : j \in Amounts
      BY <2>7, Bounds DEF Amounts
    <3>2. \A j \in Amounts : j <= k.data.amt <=> j \in 1..k.data.amt
      BY <2>7 DEF Amounts
    <3>3. CASE u[1] = n
      <4>1. u \notin Units
        BY <2>12, <3>3, UnitOfRows
      <4>2. u \in RowUnits(n, k.data.amt)
              <=> u = <<u[1], u[2]>> /\ u[2] \in Amounts /\ u[2] <= k.data.amt
        BY <3>1, <3>2, <3>3, UnitOfRows
      <4>3. u \in Units' <=> u = <<u[1], u[2]>> /\ u[2] \in Amounts /\ u[2] <= k.data.amt
        BY <2>12, <3>3, UnitOfRowsNext
      <4> QED BY <4>1, <4>2, <4>3
    <3>4. CASE u[1] # n
      <4>1. u \notin RowUnits(n, k.data.amt)
        BY <3>4, UnitOfRows
      <4>2. u \in Units' <=> u \in Units
        BY <2>12, <3>4, UnitOfRows, UnitOfRowsNext
      <4> QED BY <4>1, <4>2
    <3> QED BY <3>3, <3>4
  <2>14. \A u \in Units : u \notin RowUnits(n, k.data.amt)
    BY <2>12 DEF Units, RowUnits
  <2>15. NotRejected' = NotRejected + k.data.amt
    BY <1>0, <2>7, <2>13, <2>14, UnitsFinite, UnitsGain DEF NotRejected
  <2>16. bal' + NotRejected' = Start
    BY <1>0, <1>3, <2>2, <2>7, <2>15, UnitsFinite
  <2> QED BY <2>6, <2>16
<1> QED BY <1>2, <1>3 DEF Debit

(* The refund: the row was pending, so its amount was counted. *)
LEMMA MoneyDecision ==
  ASSUME IInv, MoneyOK, NEW a \in Admins, DecisionWrite(a)
  PROVE  MoneyOK'
<1> DEFINE s == Main(a)
           k == call[s]
           rec == [call[s] EXCEPT !.pc = "ok"]
<1>0. TypeOK /\ s \in Slots /\ call[s] \in CallType /\ bal \in Nat
  BY SlotsOf DEF IInv, TypeOK
<1>1. /\ call' = [call EXCEPT ![s] = rec] /\ k.kind \in Decisions /\ k.pc = "read"
      /\ tx' = [tx EXCEPT ![k.row].st = k.kind]
      /\ k.kind = "rejected" => bal' = Refund(k) /\ crossed' = CrossedBy(s)
      /\ k.kind # "rejected" => UNCHANGED <<bal, crossed>>
  BY DEF DecisionWrite, Decisions, To
<1> HIDE DEF s
<1>2. rec \in CallType /\ rec.kind = k.kind /\ rec.pc = "ok"
  BY <1>0, ToRecord DEF Pcs
<1> HIDE DEF rec
<1>3. call'[s] = rec /\ \A r \in Slots : r # s => call'[r] = call[r]
  BY <1>0, <1>1, <1>2, CallEffect
<1>4. k.row \in DOMAIN tx /\ tx[k.row].st = "pending"
  BY <1>0, <1>1 DEF IInv, CallOK
<1>5. tx \in Seq(TxType) /\ tx[k.row] \in TxType
  BY <1>0, <1>4, Rows DEF TypeOK
<1>6. [tx[k.row] EXCEPT !.st = k.kind] \in TxType
  BY <1>1, <1>5 DEF TxType, Decisions
<1>7. /\ DOMAIN tx' = DOMAIN tx
      /\ \A i \in DOMAIN tx : i # k.row => tx'[i] = tx[i]
      /\ tx'[k.row] = [tx[k.row] EXCEPT !.st = k.kind]
  BY <1>1, <1>4, <1>5, <1>6, ExceptSeq, LenProperties
<1>8. /\ tx'[k.row].st = k.kind /\ tx'[k.row].amt = tx[k.row].amt
      /\ tx[k.row].amt \in Amounts /\ tx[k.row].amt \in Nat
  BY <1>5, <1>7, Bounds DEF TxType
<1>9. \A r \in Slots : Pays(r)' => r # s /\ Pays(r) /\ call'[r] = call[r]
  BY <1>2, <1>3 DEF Pays
<1>10. CASE k.kind # "rejected"
  <2>1. \A i \in DOMAIN tx : /\ tx'[i].st # "rejected" <=> tx[i].st # "rejected"
                             /\ tx'[i].amt = tx[i].amt
    BY <1>4, <1>7, <1>8, <1>10
  <2>2. Units' = Units
    BY <1>7, <2>1 DEF Units
  <2>3. NotRejected' = NotRejected /\ bal' = bal /\ crossed' = crossed
    BY <1>1, <1>10, <2>2 DEF NotRejected
  <2> QED BY <1>9, <2>3 DEF MoneyOK
<1>11. CASE k.kind = "rejected"
  <2> SUFFICES ASSUME ~crossed'
               PROVE  /\ bal' + NotRejected' = Start
                      /\ \A r \in Slots : Pays(r)' => call'[r].snap = bal'
    BY DEF MoneyOK
  <2>1. ~crossed /\ \A r \in Slots : r # s => ~Pays(r)
    BY <1>1, <1>11 DEF CrossedBy
  <2>2. k.snap = bal /\ bal + NotRejected = Start
    BY <1>0, <1>1, <1>11, <2>1 DEF MoneyOK, Pays
  <2>3. \A r \in Slots : ~Pays(r)'
    BY <1>9, <2>1
  <2>4. Units = Units' \cup RowUnits(k.row, tx[k.row].amt)
    <3> SUFFICES ASSUME NEW u
                 PROVE  u \in Units <=> u \in Units' \/ u \in RowUnits(k.row, tx[k.row].amt)
      OBVIOUS
    <3>1. \A j \in 1..tx[k.row].amt : j \in Amounts
      BY <1>8, Bounds DEF Amounts
    <3>2. \A j \in Amounts : j <= tx[k.row].amt <=> j \in 1..tx[k.row].amt
      BY <1>8 DEF Amounts
    <3>3. CASE u[1] = k.row
      <4>1. u \notin Units'
        BY <1>8, <1>11, <3>3, UnitOfRowsNext
      <4>2. u \in RowUnits(k.row, tx[k.row].amt)
              <=> u = <<u[1], u[2]>> /\ u[2] \in Amounts /\ u[2] <= tx[k.row].amt
        BY <3>1, <3>2, <3>3, UnitOfRows
      <4>3. u \in Units <=> u = <<u[1], u[2]>> /\ u[2] \in Amounts /\ u[2] <= tx[k.row].amt
        BY <1>4, <3>3, UnitOfRows
      <4> QED BY <4>1, <4>2, <4>3
    <3>4. CASE u[1] # k.row
      <4>1. u \notin RowUnits(k.row, tx[k.row].amt)
        BY <3>4, UnitOfRows
      <4>2. u \in Units' <=> u \in Units
        BY <1>7, <3>4, UnitOfRows, UnitOfRowsNext
      <4> QED BY <4>1, <4>2
    <3> QED BY <3>3, <3>4
  <2>5. \A u \in Units' : u \notin RowUnits(k.row, tx[k.row].amt)
    BY <1>8, <1>11 DEF Units, RowUnits
  <2>6. IsFiniteSet(Units')
    BY <1>0, <2>4, UnitsFinite, FS_Subset
  <2>7. NotRejected = NotRejected' + tx[k.row].amt
    BY <1>8, <2>4, <2>5, <2>6, UnitsGain DEF NotRejected
  <2>8. NotRejected' \in Nat
    BY <2>6, FS_CardinalityType DEF NotRejected
  <2>9. bal' = bal + tx[k.row].amt
    BY <1>1, <1>11, <2>2 DEF Refund
  <2>10. bal' + NotRejected' = Start
    BY <1>0, <1>8, <2>2, <2>7, <2>8, <2>9
  <2> QED BY <2>3, <2>10
<1> QED BY <1>10, <1>11

(* A request that reads takes the balance as it stands. *)
LEMMA MoneyRead ==
  ASSUME TypeOK, MoneyOK, UNCHANGED <<bal, tx, crossed>>, NEW s \in Slots, NEW rec \in CallType,
         call' = [call EXCEPT ![s] = rec], rec.snap = bal
  PROVE  MoneyOK'
BY MoneyFrame

LEMMA NextMoney == IInv /\ MoneyOK /\ [Next]_vars => MoneyOK'
<1> SUFFICES ASSUME IInv, MoneyOK, [Next]_vars PROVE MoneyOK'
  OBVIOUS
<1>0. TypeOK /\ bal \in Nat /\ otp \in OtpType
  BY DEF IInv, TypeOK
<1>1. ASSUME UNCHANGED <<bal, tx, call, crossed>> PROVE MoneyOK'
  BY <1>1 DEF MoneyOK, Pays, NotRejected, Units
<1>2. ASSUME NEW t \in Tabs, User(t) PROVE MoneyOK'
  <2>1. ASSUME NEW amt \in Amounts, SubmitWithdraw(t, amt) PROVE MoneyOK'
    <3>1. [amt |-> amt, dest |-> Destination(t)] \in Data
      BY <1>0 DEF TypeOK, Data, Dests, Destination
    <3> QED BY <1>0, <2>1, <3>1, MoneySent, SlotsOf, SendArguments DEF SubmitWithdraw
  <2>2. ASSUME NEW code \in 0..Len(mail), ConfirmWithdraw(t, code) PROVE MoneyOK'
    <3>1. code \in 0..MaxCodes
      BY <1>0, Bounds, Rows DEF TypeOK
    <3>2. tab[t].pend \in Data \cup {NoData}
      BY <1>0 DEF TypeOK
    <3> QED BY <1>0, <2>2, <3>1, <3>2, MoneySent, SlotsOf, SendArguments DEF ConfirmWithdraw
  <2>3. ASSUME Resend(t) PROVE MoneyOK'
    <3>1. tab[t].pend \in Data \cup {NoData}
      BY <1>0 DEF TypeOK
    <3> QED BY <1>0, <2>3, <3>1, MoneySent, SlotsOf, SendArguments DEF Resend
  <2>4. ASSUME NEW b \in Range(Listed), SelectAccount(t, b) PROVE MoneyOK'
    BY <1>1, <2>4 DEF SelectAccount
  <2>5. ASSUME CloseOtpDialog(t) PROVE MoneyOK'
    BY <1>1, <2>5 DEF CloseOtpDialog
  <2> QED BY <1>2, <2>1, <2>2, <2>3, <2>4, <2>5 DEF User
<1>3. ASSUME NEW t \in Tabs, Page(t) PROVE MoneyOK'
  <2>1. CASE WaitEnds(t)
    BY <1>1, <2>1 DEF WaitEnds
  <2>2. CASE OtpRequested(t) \/ Resent(t) \/ Withdrawn(t) \/ WithdrawFailed(t)
    BY <1>0, <2>2, MoneyForgotten, SlotsOf DEF OtpRequested, Resent, Withdrawn, WithdrawFailed
  <2> QED BY <1>3, <2>1, <2>2 DEF Page
<1>4. ASSUME NEW s \in Slots, Server(s) PROVE MoneyOK'
  <2>0. call[s] \in CallType
    BY <1>0 DEF TypeOK
  <2>1. CASE OtpRefused(s)
    BY <1>0, <2>1, MoneyForgotten DEF OtpRefused
  <2>2. CASE OtpCheck(s)
    <3>1. PICK pc \in {"failed", "read"} : To(s, pc)
      BY <2>2 DEF OtpCheck
    <3> QED BY <1>0, <2>2, <3>1, MoneyTo DEF OtpCheck, At, Pcs
  <2>3. CASE OtpStore(s)
    BY <1>0, <2>3, MoneyTo DEF OtpStore, At, Pcs
  <2>4. CASE WithdrawRead(s)
    <3> DEFINE pc == IF otp = NoOtp THEN "failed" ELSE "read"
               rec == [call[s] EXCEPT !.snap = bal, !.seen = otp, !.pc = pc]
    <3>1. call' = [call EXCEPT ![s] = rec] /\ UNCHANGED <<bal, tx, crossed>> /\ pc \in Pcs
      BY <2>4 DEF WithdrawRead, Pcs
    <3> HIDE DEF pc
    <3>2. rec \in CallType /\ rec.snap = bal
      BY <1>0, <2>0, <3>1 DEF CallType, Pcs
    <3> HIDE DEF rec
    <3> QED BY <1>0, <3>1, <3>2, MoneyRead
  <2>5. CASE WrongCode(s)
    <3>1. PICK pc \in {"failed", "wrong"} : To(s, pc)
      BY <2>5 DEF WrongCode
    <3>2. Pays(s) /\ UNCHANGED <<bal, tx, crossed>>
      BY <2>5 DEF WrongCode, At, Pays
    <3> QED BY <1>0, <3>1, <3>2, MoneyTo DEF Pcs
  <2>6. CASE CountTry(s)
    BY <1>0, <2>6, MoneyTo DEF CountTry, Pcs
  <2>7. CASE RightCodeGiven(s)
    <3>1. PICK pc \in {"failed", "burnt"} : To(s, pc)
      BY <2>7 DEF RightCodeGiven
    <3>2. Pays(s) /\ UNCHANGED <<bal, tx, crossed>>
      BY <2>7 DEF RightCodeGiven, At, Pays
    <3> QED BY <1>0, <3>1, <3>2, MoneyTo DEF Pcs
  <2>8. CASE Debit(s)
    BY <2>8, MoneyDebit
  <2> QED BY <1>4, <2>1, <2>2, <2>3, <2>4, <2>5, <2>6, <2>7, <2>8 DEF Server
<1>5. ASSUME NEW a \in Admins, Owner(a) PROVE MoneyOK'
  <2>1. ASSUME NEW i \in 1..MaxTx, NEW st \in Decisions, Decide(a, i, st) PROVE MoneyOK'
    <3>1. i \in 0..MaxTx /\ st \in Kinds
      BY SendArguments
    <3> QED BY <1>0, <2>1, <3>1, MoneySent, SlotsOf, SendArguments DEF Decide
  <2>2. CASE DecisionRead(a)
    <3> DEFINE s == Main(a)
               pc == IF StillPending(call[s].row) THEN "read" ELSE "failed"
               rec == [call[s] EXCEPT !.snap = bal, !.pc = pc]
    <3>1. call' = [call EXCEPT ![s] = rec] /\ UNCHANGED <<bal, tx, crossed>> /\ pc \in Pcs
      BY <2>2 DEF DecisionRead, Pcs
    <3>2. s \in Slots /\ call[s] \in CallType
      BY <1>0, SlotsOf DEF TypeOK
    <3> HIDE DEF pc, s
    <3>3. rec \in CallType /\ rec.snap = bal
      BY <1>0, <3>1, <3>2 DEF CallType, Pcs
    <3> HIDE DEF rec
    <3> QED BY <1>0, <3>1, <3>2, <3>3, MoneyRead
  <2>3. CASE DecisionWrite(a)
    BY <2>3, MoneyDecision
  <2>4. CASE Decided(a)
    BY <1>0, <2>4, MoneyForgotten, SlotsOf DEF Decided
  <2> QED BY <1>5, <2>1, <2>2, <2>3, <2>4 DEF Owner, Decisions
<1>6. CASE RefetchAdminTxs
  BY <1>1, <1>6 DEF RefetchAdminTxs
<1>7. CASE CooldownEnds
  BY <1>1, <1>7 DEF CooldownEnds
<1>8. CASE CodeExpires
  BY <1>1, <1>8 DEF CodeExpires
<1>9. CASE UNCHANGED vars
  BY <1>1, <1>9 DEF vars
<1> QED BY <1>2, <1>3, <1>4, <1>5, <1>6, <1>7, <1>8, <1>9 DEF Next

-----------------------------------------------------------------------------
(* Theorems *)

LEMMA InitIInv == Init => IInv /\ MoneyOK
<1> SUFFICES ASSUME Init PROVE IInv /\ MoneyOK
  OBVIOUS
<1>1. TypeOK
  <2>1. tab \in [Tabs -> [sel: Range(Listed) \cup {"manual"}, open: BOOLEAN,
                          pend: Data \cup {NoData}, wait: BOOLEAN]]
    BY DEF Init, NoTab
  <2>2. call \in [Slots -> CallType]
    BY NoCallTyped DEF Init
  <2>3. tx \in Seq(TxType) /\ Len(tx) = 0 /\ mail \in Seq(Data) /\ Len(mail) = 0
    BY DEF Init
  <2>4. bal \in Nat /\ clicks \in 0..MaxClicks /\ Len(tx) <= MaxTx /\ Len(mail) <= MaxCodes
    BY <2>3, Bounds DEF Init
  <2>5. /\ otp \in OtpType /\ cool \in BOOLEAN /\ list \subseteq 1..MaxTx
        /\ raced \subseteq Codes /\ crossed \in BOOLEAN
    BY NoOtpTyped DEF Init
  <2> QED BY <2>1, <2>2, <2>3, <2>4, <2>5 DEF TypeOK
<1>2. DOMAIN tx = {} /\ DOMAIN mail = {}
  BY DEF Init
<1>3. \A s \in Slots : call[s] = NoCall
  BY DEF Init
<1>4. \A s \in Slots : CallOK(call[s])
  BY <1>3, NoCallTyped DEF CallOK, Decisions
<1>5. OneDecider
  BY <1>3, NoCallTyped DEF OneDecider, Deciding
<1>6. CodesOK
  BY <1>2 DEF CodesOK
<1>7. IInv
  BY <1>1, <1>2, <1>4, <1>5, <1>6 DEF Init, IInv
<1>8. Units = {}
  BY <1>2 DEF Units
<1>9. NotRejected = 0
  BY <1>8, FS_EmptySet DEF NotRejected
<1>10. \A s \in Slots : ~Pays(s)
  BY <1>3, NoCallTyped DEF Pays
<1>11. bal + NotRejected = Start
  BY <1>9, Bounds DEF Init
<1> QED BY <1>7, <1>10, <1>11 DEF MoneyOK

LEMMA NextIInv == IInv /\ [Next]_vars => IInv'
<1> SUFFICES ASSUME IInv, [Next]_vars PROVE IInv'
  OBVIOUS
<1>1. ASSUME NEW t \in Tabs, User(t) PROVE IInv'
  BY <1>1, SelectAccountStep, SubmitWithdrawStep, ConfirmWithdrawStep, ResendStep,
     CloseOtpDialogStep DEF User
<1>2. ASSUME NEW t \in Tabs, Page(t) PROVE IInv'
  BY <1>2, OtpRequestedStep, ResentStep, WaitEndsStep, WithdrawnStep, WithdrawFailedStep DEF Page
<1>3. ASSUME NEW s \in Slots, Server(s) PROVE IInv'
  BY <1>3, OtpRefusedStep, OtpCheckStep, OtpStoreStep, WithdrawReadStep, WrongCodeStep,
     CountTryStep, RightCodeGivenStep, DebitStep DEF Server
<1>4. ASSUME NEW a \in Admins, Owner(a) PROVE IInv'
  BY <1>4, DecideStep, DecisionReadStep, DecisionWriteStep, DecidedStep DEF Owner, Decisions
<1>5. CASE UNCHANGED vars
  <2>1. TypeOK'
    BY <1>5 DEF IInv, TypeOK, vars
  <2> QED BY <1>5, <2>1, FrameStep DEF IInv, vars
<1> QED BY <1>1, <1>2, <1>3, <1>4, <1>5, RefetchAdminTxsStep, CooldownEndsStep, CodeExpiresStep
        DEF Next

THEOREM Inductive == Spec => [](IInv /\ MoneyOK)
<1>1. Init => IInv /\ MoneyOK
  BY InitIInv
<1>2. (IInv /\ MoneyOK) /\ [Next]_vars => (IInv /\ MoneyOK)'
  BY NextIInv, NextMoney
<1> QED BY <1>1, <1>2, PTL DEF Spec

(* request_withdraw and admin_update_transaction_status: whatever was      *)
(* resent, mistyped or decided at the same time, a withdrawal takes the    *)
(* amount its mail named, a code pays twice only if two requests had read  *)
(* it, and unless the reads of two requests overlapped no money is lost.   *)
THEOREM WithdrawalsAreSafe == Spec => []WithdrawSafe
<1>1. IInv => TypeOK /\ MailedAmount
  BY DEF IInv, MailedAmount
<1>2. IInv => CodeReusedOnlyInRace
  BY DEF IInv, CodesOK, OneUse, CodeReusedOnlyInRace
<1>3. MoneyOK => Conserved
  BY DEF MoneyOK, Conserved
<1>4. IInv /\ MoneyOK => WithdrawSafe
  BY <1>1, <1>2, <1>3 DEF WithdrawSafe
<1> QED BY <1>4, Inductive, PTL

(* The status is looked at with the row locked: a row that was approved or *)
(* rejected is never written again, by whichever owner.                    *)
Final == \A i \in DOMAIN tx : tx[i].st # "pending" => tx'[i] = tx[i]

THEOREM DecisionsAreFinal == Spec => DecisionFinal
<1>1. IInv /\ [Next]_vars => [Final]_vars
  <2> SUFFICES ASSUME IInv, Next PROVE Final
    OBVIOUS
  <2>0. TypeOK
    BY DEF IInv
  <2>1. ASSUME tx' = tx PROVE Final
    BY <2>1 DEF Final
  <2>2. ASSUME NEW s \in Slots, Debit(s) PROVE Final
    <3> DEFINE k == call[s]
               row == [amt |-> k.data.amt, dest |-> k.data.dest, st |-> "pending",
                       code |-> k.code]
    <3>1. CASE tx' = tx
      BY <2>1, <3>1
    <3>2. CASE tx' = Append(tx, row)
      BY <2>0, <3>2, Rows, AppendProperties DEF Final, TypeOK
    <3> QED BY <2>2, <3>1, <3>2 DEF Debit
  <2>3. ASSUME NEW a \in Admins, DecisionWrite(a) PROVE Final
    <3> DEFINE s == Main(a)
               k == call[s]
    <3>1. s \in Slots /\ tx' = [tx EXCEPT ![k.row].st = k.kind] /\ Deciding(k)
      BY <2>3, SlotsOf DEF DecisionWrite, Deciding, Decisions
    <3>2. tx[k.row].st = "pending"
      BY <3>1 DEF IInv, CallOK, Deciding
    <3> HIDE DEF k
    <3>3. \A i \in DOMAIN tx : i # k.row => tx'[i] = tx[i]
      BY <3>1
    <3> QED BY <3>2, <3>3 DEF Final
  <2> QED BY <2>1, <2>2, <2>3 DEF Next, User, Page, Server, Owner, SelectAccount, SubmitWithdraw,
        ConfirmWithdraw, Resend, CloseOtpDialog, OtpRequested, Resent, WaitEnds, Withdrawn,
        WithdrawFailed, OtpRefused, OtpCheck, OtpStore, WithdrawRead, WrongCode, CountTry,
        RightCodeGiven, Decide, DecisionRead, Decided, RefetchAdminTxs, CooldownEnds, CodeExpires
<1> QED BY <1>1, Inductive, PTL DEF Spec, DecisionFinal, Final
=============================================================================
