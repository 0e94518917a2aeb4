---------------------------- MODULE EnrolmentProofs ---------------------------
(***************************************************************************)
(* Enrolment for any number of requests in flight, codes, methods and      *)
(* verifications.  None of the properties is inductive: Staged says what a *)
(* request carries at each of its steps, Sole that an area in which        *)
(* nothing overlapped has one request at most, and the three courses what  *)
(* that request may rely on.  A step is shown to keep its own area's       *)
(* course (LoginStep, MethodStep, KycStep) and to leave the others alone   *)
(* (LoginFrame, MethodFrame, KycFrame).                                    *)
(***************************************************************************)
EXTENDS Enrolment, TLAPS

Records == [op : Ops, pc : Steps, n : Nat, vehicle : Vehicles \cup {NoVehicle},
            upi : Upis \cup {NoUpi}, status : OnboardingStatus, prefer : BOOLEAN]

RowSteps == {"profile", "vehicle", "bank", "submit", "ask", "approve", "enlist", "reject", "reopen"}
LoginClaims == {"newCode", "overdue", "redeem", "enter"}
MethodClaims == {"unprefer", "add", "method", "prefer", "remove"}
KycClaims == {"profile", "ask", "approve", "enlist"}

\* The parts of TypeOK and Staged that are about rows.
OtpTyped == otp \in [Codes -> OtpStatus] /\ logins \in [Codes -> Nat]
OnboardingTyped ==
    /\ onboarding \in [status : OnboardingStatus, vehicle : Vehicles \cup {NoVehicle},
                       upi : Upis \cup {NoUpi}]
    /\ ~HasRow => onboarding.vehicle = NoVehicle /\ onboarding.upi = NoUpi
MethodTyped ==
    /\ method \in [Methods -> [upi : Upis \cup {NoUpi}, active : BOOLEAN, preferred : BOOLEAN]]
    /\ \A m \in Active : method[m].upi \in Upis
KycTyped ==
    /\ profile \in Vehicles \cup {NoVehicle}
    /\ verification \in [Verifications -> KycStatus]
    /\ passed \subseteq Vehicles \cup {NoVehicle}
VerifiedHasRow == \A k \in Verifications : verification[k] # "NONE" => HasRow
Typed == OtpTyped /\ OnboardingTyped /\ MethodTyped /\ KycTyped /\ VerifiedHasRow

Base == TypeOK /\ Staged /\ Sole
LoginInv == LoginCourse /\ CodeLogsInOnce
MethodInv == MethodCourse /\ OnePreferred
KycInv == KycCourse /\ ApprovedWasVerified

LEMMA BaseIs == Base <=> /\ Typed /\ Sole /\ call \in [Requests -> Records] /\ crossed \subseteq Areas
                         /\ \A r \in Requests : /\ Carries(call[r])
                                                /\ call[r].pc \in RowSteps => HasRow
  BY DEF Base, Typed, TypeOK, Staged, OtpTyped, OnboardingTyped, MethodTyped, KycTyped, VerifiedHasRow,
         Records, RowSteps

LEMMA BaseThen == Base' <=> /\ Typed' /\ Sole' /\ call' \in [Requests -> Records] /\ crossed' \subseteq Areas
                           /\ \A r \in Requests : /\ Carries(call'[r])
                                                  /\ call'[r].pc \in RowSteps => HasRow'
  BY DEF Base, Typed, TypeOK, Staged, OtpTyped, OnboardingTyped, MethodTyped, KycTyped, VerifiedHasRow,
         Records, RowSteps

-------------------------------------------------------------------------------
(* The tables. *)

LEMMA OpsAtIs ==
    /\ OpsAt("idle") = Ops
    /\ OpsAt("newCode") = {"requestOtp"}
    /\ OpsAt("overdue") = {"verifyOtp"} /\ OpsAt("redeem") = {"verifyOtp"}
    /\ OpsAt("enter") = {"verifyOtp"} /\ OpsAt("seed") = {"verifyOtp"}
    /\ OpsAt("insert") = {"profile", "vehicle", "bank"}
    /\ OpsAt("profile") = {"profile"} /\ OpsAt("vehicle") = {"vehicle"}
    /\ OpsAt("bank") = {"bank"} /\ OpsAt("submit") = {"submit"}
    /\ OpsAt("method") = {"method"} /\ OpsAt("prefer") = {"prefer"}
    /\ OpsAt("remove") = {"remove"} /\ OpsAt("fillUpi") = {"method"}
    /\ OpsAt("default") = {"bank", "verify", "approve"}
    /\ OpsAt("unprefer") = {"bank", "verify", "approve"}
    /\ OpsAt("add") = {"bank", "verify", "approve"}
    /\ OpsAt("ask") = {"verify"} /\ OpsAt("reopen") = {"verify"}
    /\ OpsAt("approve") = {"verify", "approve"} /\ OpsAt("enlist") = {"verify", "approve"}
    /\ OpsAt("reject") = {"verify", "reject"}
  BY DEF OpsAt

LEMMA TouchesIs ==
    /\ Touches("requestOtp") = {"login"} /\ Touches("verifyOtp") = {"login"}
    /\ Touches("prefer") = {"methods"} /\ Touches("remove") = {"methods"}
    /\ Touches("profile") = {"kyc"} /\ Touches("vehicle") = {"kyc"}
    /\ Touches("submit") = {"kyc"} /\ Touches("reject") = {"kyc"}
    /\ Touches("bank") = {"methods", "kyc"} /\ Touches("method") = {"methods", "kyc"}
    /\ Touches("verify") = {"methods", "kyc"} /\ Touches("approve") = {"methods", "kyc"}
  BY DEF Touches

\* A request at a step that relies on an area occupies it.
LEMMA ClaimsOccupy ==
    ASSUME NEW c, Carries(c)
    PROVE  /\ c.pc \in LoginClaims => Occupies(c, "login")
           /\ c.pc \in MethodClaims \cup {"default"} => Occupies(c, "methods")
           /\ c.pc \in KycClaims \cup RowSteps \cup {"insert", "fillUpi"} => Occupies(c, "kyc")
  <1>1. c.op \in OpsAt(c.pc)
    BY DEF Carries
  <1>2. c.pc \in LoginClaims => Occupies(c, "login")
    BY <1>1, OpsAtIs, TouchesIs DEF LoginClaims, Occupies
  <1>3. c.pc \in MethodClaims \cup {"default"} => Occupies(c, "methods")
    BY <1>1, OpsAtIs, TouchesIs DEF MethodClaims, Occupies
  <1>4. c.pc \in KycClaims \cup RowSteps \cup {"insert", "fillUpi"} => Occupies(c, "kyc")
    BY <1>1, OpsAtIs, TouchesIs DEF KycClaims, RowSteps, Occupies
  <1> QED  BY <1>2, <1>3, <1>4

LEMMA IdleIs == Idle \in Records /\ Carries(Idle) /\ Idle.pc = "idle"
  <1>1. /\ Idle.op = "reject" /\ Idle.pc = "idle" /\ Idle.n = 1 /\ Idle.vehicle = NoVehicle
        /\ Idle.upi = NoUpi /\ Idle.status = "NONE" /\ Idle.prefer = FALSE
    BY DEF Idle, Call
  <1>2. Idle \in Records
    BY DEF Idle, Call, Records, Ops, Steps, OnboardingStatus
  <1>3. Carries(Idle)
    BY <1>1, OpsAtIs DEF Carries, Ops
  <1> QED  BY <1>1, <1>2, <1>3

-------------------------------------------------------------------------------
(* One request moves: r becomes new. *)

\* r was in flight and stays the request it was, or it arrives; new overlaps are recorded.
Counted(r, new) ==
    /\ crossed \subseteq crossed' /\ crossed' \subseteq Areas
    /\ \/ new.pc = "idle"
       \/ call[r].pc # "idle" /\ new.op = call[r].op
       \/ \A area \in Touches(new.op) : area \in crossed' \/ Busy(area) = {}

LEMMA BaseStep ==
    ASSUME Base, NEW r \in Requests, NEW new \in Records, Carries(new),
           call' = [call EXCEPT ![r] = new], Counted(r, new),
           Typed', HasRow => HasRow', new.pc \in RowSteps => HasRow'
    PROVE  Base'
  <1>1. /\ call \in [Requests -> Records]
        /\ \A q \in Requests : Carries(call[q]) /\ (call[q].pc \in RowSteps => HasRow)
        /\ Sole
    BY BaseIs
  <1>2. call' \in [Requests -> Records] /\ call'[r] = new
    BY <1>1
  <1>3. \A q \in Requests : q # r => call'[q] = call[q]
    BY <1>1
  <1>4. \A q \in Requests : Carries(call'[q]) /\ (call'[q].pc \in RowSteps => HasRow')
    BY <1>1, <1>2, <1>3
  <1>5. ASSUME NEW area \in Areas \ crossed', NEW p \in Requests, NEW q \in Requests,
               Occupies(call'[p], area), Occupies(call'[q], area), p # q
        PROVE  FALSE
    <2>1. area \in Areas \ crossed
      BY DEF Counted
    <2>2. ASSUME NEW s \in Requests, s # r, Occupies(call[s], area), Occupies(new, area)
          PROVE  FALSE
      <3>1. new.pc # "idle" /\ area \in Touches(new.op)
        BY <2>2 DEF Occupies
      <3>2. s \in Busy(area)
        BY <2>2 DEF Occupies, Busy, At
      <3>3. call[r].pc # "idle" /\ new.op = call[r].op
        BY <3>1, <3>2 DEF Counted
      <3>4. Occupies(call[r], area)
        BY <3>1, <3>3 DEF Occupies
      <3> QED  BY <1>1, <2>1, <2>2, <3>4 DEF Sole
    <2>3. CASE p # r /\ q # r
      BY <1>1, <1>3, <1>5, <2>1, <2>3 DEF Sole
    <2>4. CASE p = r
      BY <1>2, <1>3, <1>5, <2>2, <2>4
    <2>5. CASE q = r
      BY <1>2, <1>3, <1>5, <2>2, <2>5
    <2> QED  BY <2>3, <2>4, <2>5
  <1>6. Sole'
    BY <1>5 DEF Sole
  <1>7. crossed' \subseteq Areas
    BY DEF Counted
  <1> QED  BY <1>2, <1>4, <1>6, <1>7, BaseThen

\* The request of an area nothing has crossed is alone in it.
LEMMA Alone ==
    ASSUME Base, NEW r \in Requests, NEW new, call' = [call EXCEPT ![r] = new],
           NEW area \in Areas \ crossed, Occupies(call[r], area) \/ Busy(area) = {}
    PROVE  \A q \in Requests : q # r => call'[q] = call[q] /\ ~Occupies(call[q], area)
  <1>1. call \in [Requests -> Records] /\ Sole
    BY BaseIs
  <1>2. ASSUME NEW q \in Requests, q # r PROVE call'[q] = call[q] /\ ~Occupies(call[q], area)
    <2>1. CASE Occupies(call[r], area)
      BY <1>1, <1>2, <2>1 DEF Sole
    <2>2. CASE Busy(area) = {}
      BY <1>1, <1>2, <2>2 DEF Busy, Occupies, At
    <2> QED  BY <2>1, <2>2
  <1> QED  BY <1>2

LEMMA OthersClaimNothing ==
    ASSUME Base, NEW r \in Requests, NEW new, call' = [call EXCEPT ![r] = new],
           NEW area \in Areas \ crossed, Occupies(call[r], area) \/ Busy(area) = {}
    PROVE  \A q \in Requests : q # r =>
               /\ area = "login" => call'[q].pc \notin LoginClaims
               /\ area = "methods" => call'[q].pc \notin MethodClaims
               /\ area = "kyc" => call'[q].pc \notin KycClaims
  <1>1. \A q \in Requests : Carries(call[q])
    BY BaseIs
  <1>2. \A q \in Requests : q # r => call'[q] = call[q] /\ ~Occupies(call[q], area)
    BY Alone
  <1> QED  BY <1>1, <1>2, ClaimsOccupy

LEMMA NewIs ==
    ASSUME Base, NEW r \in Requests, NEW new, call' = [call EXCEPT ![r] = new]
    PROVE  call'[r] = new /\ \A q \in Requests : q # r => call'[q] = call[q]
  BY BaseIs

LEMMA LoginStep ==
    ASSUME Base, NEW r \in Requests, NEW new, call' = [call EXCEPT ![r] = new],
           crossed \subseteq crossed',
           "login" \notin crossed' => Occupies(call[r], "login") \/ Busy("login") = {},
           "login" \notin crossed' =>
               /\ \A j, k \in Codes : j < k /\ otp'[j] = "NONE" => otp'[k] = "NONE"
               /\ \A k \in Codes : otp'[k] # "EXPIRED" => logins'[k] = 0
               /\ LoginRow(new)',
           CodeLogsInOnce'
    PROVE  LoginInv'
  <1>1. ASSUME "login" \notin crossed', NEW q \in Requests PROVE LoginRow(call[q])'
    <2>1. CASE q = r
      BY <1>1, <2>1, NewIs DEF LoginRow
    <2>2. CASE q # r
      <3>1. "login" \in Areas \ crossed
        BY <1>1 DEF Areas
      <3>2. call'[q].pc \notin LoginClaims
        BY <1>1, <2>2, <3>1, OthersClaimNothing
      <3> QED  BY <3>2 DEF LoginRow, LoginClaims
    <2> QED  BY <2>1, <2>2
  <1>2. LoginCourse'
    BY <1>1 DEF LoginCourse
  <1> QED  BY <1>2 DEF LoginInv

LEMMA MethodStep ==
    ASSUME Base, NEW r \in Requests, NEW new, call' = [call EXCEPT ![r] = new],
           crossed \subseteq crossed',
           "methods" \notin crossed' => Occupies(call[r], "methods") \/ Busy("methods") = {},
           "methods" \notin crossed' => MethodRow(new)',
           OnePreferred'
    PROVE  MethodInv'
  <1>1. ASSUME "methods" \notin crossed', NEW q \in Requests PROVE MethodRow(call[q])'
    <2>1. CASE q = r
      BY <1>1, <2>1, NewIs DEF MethodRow
    <2>2. CASE q # r
      <3>1. "methods" \in Areas \ crossed
        BY <1>1 DEF Areas
      <3>2. call'[q].pc \notin MethodClaims
        BY <1>1, <2>2, <3>1, OthersClaimNothing
      <3> QED  BY <3>2 DEF MethodRow, MethodClaims
    <2> QED  BY <2>1, <2>2
  <1>2. MethodCourse'
    BY <1>1 DEF MethodCourse
  <1> QED  BY <1>2 DEF MethodInv

LEMMA KycStep ==
    ASSUME Base, NEW r \in Requests, NEW new, call' = [call EXCEPT ![r] = new],
           crossed \subseteq crossed',
           "kyc" \notin crossed' => Occupies(call[r], "kyc") \/ Busy("kyc") = {},
           "kyc" \notin crossed' => KycRow(new)' /\ (new.pc # "enlist" => InForce'),
           ApprovedWasVerified'
    PROVE  KycInv'
  <1>1. ASSUME "kyc" \notin crossed', NEW q \in Requests PROVE KycRow(call[q])'
    <2>1. CASE q = r
      BY <1>1, <2>1, NewIs DEF KycRow
    <2>2. CASE q # r
      <3>1. "kyc" \in Areas \ crossed
        BY <1>1 DEF Areas
      <3>2. call'[q].pc \notin KycClaims
        BY <1>1, <2>2, <3>1, OthersClaimNothing
      <3> QED  BY <3>2 DEF KycRow, KycClaims
    <2> QED  BY <2>1, <2>2
  <1>2. call'[r] = new
    BY NewIs
  <1>3. KycCourse'
    BY <1>1, <1>2 DEF KycCourse, At
  <1> QED  BY <1>3 DEF KycInv

LEMMA LoginFrame ==
    ASSUME Base, LoginInv, NEW r \in Requests, NEW new, call' = [call EXCEPT ![r] = new],
           crossed \subseteq crossed', UNCHANGED <<otp, logins>>, new.pc \notin LoginClaims
    PROVE  LoginInv'
  <1>1. CodeLogsInOnce'
    BY DEF LoginInv, CodeLogsInOnce, Standing
  <1>2. ASSUME "login" \notin crossed', NEW q \in Requests PROVE LoginRow(call[q])'
    <2>1. CASE q = r
      BY <2>1, NewIs DEF LoginRow, LoginClaims
    <2>2. CASE q # r
      <3>1. call'[q] = call[q] /\ LoginRow(call[q])
        BY <1>2, <2>2, NewIs DEF LoginInv, LoginCourse
      <3> QED  BY <3>1 DEF LoginRow, Standing
    <2> QED  BY <2>1, <2>2
  <1>3. LoginCourse'
    BY <1>2 DEF LoginInv, LoginCourse
  <1> QED  BY <1>1, <1>3 DEF LoginInv

LEMMA MethodFrame ==
    ASSUME Base, MethodInv, NEW r \in Requests, NEW new, call' = [call EXCEPT ![r] = new],
           crossed \subseteq crossed', UNCHANGED method, new.pc \notin MethodClaims
    PROVE  MethodInv'
  <1>1. OnePreferred'
    BY DEF MethodInv, OnePreferred, Active
  <1>2. ASSUME "methods" \notin crossed', NEW q \in Requests PROVE MethodRow(call[q])'
    <2>1. CASE q = r
      BY <2>1, NewIs DEF MethodRow, MethodClaims
    <2>2. CASE q # r
      <3>1. call'[q] = call[q] /\ MethodRow(call[q])
        BY <1>2, <2>2, NewIs DEF MethodInv, MethodCourse
      <3> QED  BY <3>1 DEF MethodRow, Active
    <2> QED  BY <2>1, <2>2
  <1>3. MethodCourse'
    BY <1>2 DEF MethodCourse
  <1> QED  BY <1>1, <1>3 DEF MethodInv

LEMMA KycFrame ==
    ASSUME Base, KycInv, NEW r \in Requests, NEW new, call' = [call EXCEPT ![r] = new],
           crossed \subseteq crossed', UNCHANGED <<onboarding, profile, passed, mix>>,
           new.pc \notin KycClaims, call[r].pc = "enlist" => "kyc" \in crossed'
    PROVE  KycInv'
  <1>1. ApprovedWasVerified'
    BY DEF KycInv, ApprovedWasVerified, Happens
  <1>2. ASSUME "kyc" \notin crossed', NEW q \in Requests PROVE KycRow(call[q])'
    <2>1. CASE q = r
      BY <2>1, NewIs DEF KycRow, KycClaims
    <2>2. CASE q # r
      <3>1. call'[q] = call[q] /\ KycRow(call[q])
        BY <1>2, <2>2, NewIs DEF KycInv, KycCourse
      <3> QED  BY <3>1 DEF KycRow, Happens
    <2> QED  BY <2>1, <2>2
  <1>3. ASSUME "kyc" \notin crossed', \A q \in Requests : ~At(q, "enlist")' PROVE InForce'
    <2>1. \A q \in Requests : ~At(q, "enlist")
      BY <1>3, NewIs DEF At
    <2> QED  BY <1>3, <2>1 DEF KycInv, KycCourse, InForce
  <1>4. KycCourse'
    BY <1>2, <1>3 DEF KycCourse
  <1> QED  BY <1>1, <1>4 DEF KycInv

LEMMA Whole == IInv <=> Base /\ LoginInv /\ MethodInv /\ KycInv
  <1>1. ASSUME Base, KycInv PROVE ApprovedIsInForce
    <2>1. ASSUME NEW r \in Requests, At(r, "enlist"), Busy("kyc") = {} PROVE FALSE
      <3>1. Carries(call[r]) /\ call[r].pc \in KycClaims
        BY <2>1, BaseIs, <1>1 DEF At, KycClaims
      <3>2. Occupies(call[r], "kyc")
        BY <3>1, ClaimsOccupy
      <3> QED  BY <2>1, <3>2 DEF Occupies, Busy, At
    <2> QED  BY <1>1, <2>1 DEF KycInv, KycCourse, InForce, ApprovedIsInForce
  <1> QED  BY <1>1 DEF IInv, Base, LoginInv, MethodInv, KycInv

-------------------------------------------------------------------------------
(* A step that concerns one area. *)

LEMMA OnlyLogin ==
    ASSUME IInv, NEW r \in Requests, NEW new \in Records, Carries(new),
           call' = [call EXCEPT ![r] = new], Counted(r, new),
           UNCHANGED <<onboarding, profile, method, verification, passed, mix>>,
           OtpTyped', LoginInv',
           new.pc \notin RowSteps \cup MethodClaims \cup KycClaims,
           call[r].pc = "enlist" => "kyc" \in crossed'
    PROVE  IInv'
  <1>1. Base /\ MethodInv /\ KycInv
    BY Whole
  <1>2. HasRow' = HasRow /\ crossed \subseteq crossed'
    BY DEF HasRow, Counted
  <1>3. Typed'
    BY <1>1, <1>2, BaseIs DEF Typed, OnboardingTyped, MethodTyped, KycTyped, VerifiedHasRow, Active
  <1>4. Base'
    BY <1>1, <1>2, <1>3, BaseStep
  <1>5. MethodInv'
    BY <1>1, <1>2, MethodFrame
  <1>6. KycInv'
    BY <1>1, <1>2, KycFrame
  <1> QED  BY <1>4, <1>5, <1>6, Whole, PTL

LEMMA OnlyMethods ==
    ASSUME IInv, NEW r \in Requests, NEW new \in Records, Carries(new),
           call' = [call EXCEPT ![r] = new], Counted(r, new),
           UNCHANGED <<otp, onboarding, profile, verification, logins, passed, mix>>,
           MethodTyped', MethodInv',
           new.pc \notin RowSteps \cup LoginClaims \cup KycClaims,
           call[r].pc # "enlist"
    PROVE  IInv'
  <1>1. Base /\ LoginInv /\ KycInv
    BY Whole
  <1>2. HasRow' = HasRow /\ crossed \subseteq crossed'
    BY DEF HasRow, Counted
  <1>3. Typed'
    BY <1>1, <1>2, BaseIs DEF Typed, OtpTyped, OnboardingTyped, KycTyped, VerifiedHasRow
  <1>4. Base'
    BY <1>1, <1>2, <1>3, BaseStep
  <1>5. LoginInv'
    BY <1>1, <1>2, LoginFrame
  <1>6. KycInv'
    BY <1>1, <1>2, KycFrame
  <1> QED  BY <1>4, <1>5, <1>6, Whole, PTL

LEMMA OnlyKyc ==
    ASSUME IInv, NEW r \in Requests, NEW new \in Records, Carries(new),
           call' = [call EXCEPT ![r] = new], Counted(r, new),
           UNCHANGED <<otp, method, logins, mix>>,
           OnboardingTyped', KycTyped', VerifiedHasRow', KycInv',
           HasRow => HasRow', new.pc \in RowSteps => HasRow',
           new.pc \notin LoginClaims \cup MethodClaims
    PROVE  IInv'
  <1>1. Base /\ LoginInv /\ MethodInv
    BY Whole
  <1>2. crossed \subseteq crossed'
    BY DEF Counted
  <1>3. Typed'
    BY <1>1, BaseIs DEF Typed, OtpTyped, MethodTyped, Active
  <1>4. Base'
    BY <1>1, <1>3, BaseStep
  <1>5. LoginInv'
    BY <1>1, <1>2, LoginFrame
  <1>6. MethodInv'
    BY <1>1, <1>2, MethodFrame
  <1> QED  BY <1>4, <1>5, <1>6, Whole, PTL

LEMMA BeginIs ==
    ASSUME Base, NEW r \in Requests, NEW new \in Records, Begin(r, new)
    PROVE  /\ call' = [call EXCEPT ![r] = new] /\ Counted(r, new) /\ crossed \subseteq crossed'
           /\ \A area \in Touches(new.op) : area \notin crossed' => Busy(area) = {}
           /\ call[r].pc = "idle" /\ mix' = mix
  <1>1. new.op \in Ops /\ crossed \subseteq Areas
    BY BaseIs DEF Records
  <1>2. Touches(new.op) \subseteq Areas
    BY <1>1, TouchesIs DEF Ops, Areas
  <1> QED  BY <1>1, <1>2 DEF Begin, Counted, At

LEMMA GotoIs ==
    ASSUME Base, NEW r \in Requests, NEW pc \in Steps, Goto(r, pc)
    PROVE  \E new \in Records :
               /\ call' = [call EXCEPT ![r] = new]
               /\ new.pc = pc /\ new.op = call[r].op /\ new.n = call[r].n
               /\ new.vehicle = call[r].vehicle /\ new.upi = call[r].upi
               /\ new.status = call[r].status /\ new.prefer = call[r].prefer
  <1>1. call \in [Requests -> Records] /\ call[r] \in Records
    BY BaseIs
  <1>2. [call[r] EXCEPT !.pc = pc] \in Records
    BY <1>1 DEF Records
  <1>3. call' = [call EXCEPT ![r] = [call[r] EXCEPT !.pc = pc]]
    BY <1>1 DEF Goto
  <1>4. LET new == [call[r] EXCEPT !.pc = pc] IN
        /\ new.pc = pc /\ new.op = call[r].op /\ new.n = call[r].n
        /\ new.vehicle = call[r].vehicle /\ new.upi = call[r].upi
        /\ new.status = call[r].status /\ new.prefer = call[r].prefer
    BY <1>1 DEF Records
  <1> QED  BY <1>2, <1>3, <1>4

\* A later step of a request in flight, with nothing newly crossed.
LEMMA KeepsIs ==
    ASSUME Base, NEW r \in Requests, NEW new, Keeps,
           new.pc = "idle" \/ (call[r].pc # "idle" /\ new.op = call[r].op)
    PROVE  Counted(r, new) /\ crossed' = crossed /\ crossed \subseteq crossed' /\ mix' = mix
  BY BaseIs DEF Keeps, Counted

-------------------------------------------------------------------------------
(* Logging in. *)

LEMMA RequestOtpKeeps ==
    ASSUME IInv, NEW r \in Requests, RequestOtp(r)
    PROVE  IInv'
  <1> DEFINE new == Login("requestOtp", "newCode", 1)
  <1>1. Base /\ LoginInv /\ Begin(r, new)
    BY Whole DEF RequestOtp
  <1>2. /\ new \in Records /\ new.op = "requestOtp" /\ new.pc = "newCode"
    BY DEF Login, Call, Records, Ops, Steps, OnboardingStatus
  <1>3. Carries(new)
    BY <1>2, OpsAtIs DEF Carries
  <1> HIDE DEF new
  <1>4. /\ call' = [call EXCEPT ![r] = new] /\ Counted(r, new) /\ crossed \subseteq crossed'
        /\ "login" \notin crossed' => Busy("login") = {}
        /\ call[r].pc = "idle" /\ mix' = mix
    BY <1>1, <1>2, BeginIs, TouchesIs
  <1>5. /\ otp' = [k \in Codes |-> IF otp[k] = "ACTIVE" THEN "EXPIRED" ELSE otp[k]]
        /\ UNCHANGED <<onboarding, profile, method, verification, logins, passed>>
    BY DEF RequestOtp, ghosts
  <1>6. otp \in [Codes -> OtpStatus] /\ logins \in [Codes -> Nat]
    BY <1>1, BaseIs DEF Typed, OtpTyped
  <1>7. OtpTyped' /\ Standing' = {}
    BY <1>5, <1>6 DEF OtpTyped, OtpStatus, Standing
  <1>8. LoginInv'
    <2>1. LoginRow(new)'
      BY <1>2, <1>7 DEF LoginRow
    <2>2. "login" \notin crossed' =>
              \A j, k \in Codes : j < k /\ otp'[j] = "NONE" => otp'[k] = "NONE"
      BY <1>1, <1>4, <1>5 DEF LoginInv, LoginCourse
    <2>3. "login" \notin crossed' => \A k \in Codes : otp'[k] # "EXPIRED" => logins'[k] = 0
      BY <1>1, <1>4, <1>5 DEF LoginInv, LoginCourse
    <2>4. CodeLogsInOnce'
      BY <1>1, <1>4, <1>5, <1>7 DEF LoginInv, CodeLogsInOnce
    <2> QED  BY <1>1, <1>4, <2>1, <2>2, <2>3, <2>4, LoginStep
  <1> QED
    BY <1>2, <1>3, <1>4, <1>5, <1>7, <1>8, OnlyLogin DEF RowSteps, MethodClaims, KycClaims

LEMMA NewCodeKeeps ==
    ASSUME IInv, NEW r \in Requests, NewCode(r)
    PROVE  IInv'
  <1>1. Base /\ LoginInv /\ call[r].pc = "newCode" /\ Keeps /\ Finish(r)
    BY Whole DEF NewCode, At
  <1>2. PICK k \in Unissued : /\ \A j \in Unissued : k <= j
                              /\ otp' = [otp EXCEPT ![k] = "ACTIVE"]
    BY DEF NewCode
  <1>3. UNCHANGED <<onboarding, profile, method, verification, logins, passed>>
    BY DEF NewCode, ghosts
  <1>4. call' = [call EXCEPT ![r] = Idle]
    BY <1>1 DEF Finish
  <1>5. /\ otp \in [Codes -> OtpStatus] /\ logins \in [Codes -> Nat] /\ Carries(call[r])
        /\ k \in Codes /\ k \in Nat /\ Codes \subseteq Nat
    BY <1>1, <1>2, BaseIs DEF Typed, OtpTyped, Unissued, Codes
  <1>6. OtpTyped'
    BY <1>2, <1>3, <1>5 DEF OtpTyped, OtpStatus
  <1>7. /\ Counted(r, Idle) /\ crossed' = crossed /\ mix' = mix /\ Occupies(call[r], "login")
    BY <1>1, <1>5, IdleIs, KeepsIs, ClaimsOccupy DEF LoginClaims
  <1>8. LoginInv'
    <2>1. LoginRow(Idle)'
      BY IdleIs DEF LoginRow
    <2>2. \A j \in Codes : j < k => otp[j] # "NONE"
      BY <1>2, <1>5 DEF Unissued
    <2>3. "login" \notin crossed => \A j \in Codes : j > k => otp[j] = "NONE"
      BY <1>1, <1>2, <1>5 DEF LoginInv, LoginCourse, Unissued
    <2>4. "login" \notin crossed' =>
              \A i, j \in Codes : i < j /\ otp'[i] = "NONE" => otp'[j] = "NONE"
      BY <1>1, <1>2, <1>5, <1>7, <2>2 DEF LoginInv, LoginCourse
    <2>5. "login" \notin crossed' => \A j \in Codes : otp'[j] # "EXPIRED" => logins'[j] = 0
      BY <1>1, <1>2, <1>3, <1>5, <1>7 DEF LoginInv, LoginCourse, Unissued
    <2>6. "login" \notin crossed' => Standing' = {k}
      BY <1>1, <1>2, <1>5, <1>7 DEF LoginInv, LoginCourse, LoginRow, Standing
    <2>7. CodeLogsInOnce'
      <3>1. "login" \notin crossed' => \A j \in Codes : logins'[j] <= 1
        BY <1>1, <1>3, <1>7 DEF LoginInv, CodeLogsInOnce
      <3>2. ASSUME "login" \notin crossed', NEW j \in Codes, otp'[j] # "NONE"
            PROVE  j <= k
        <4>1. j # k => otp[j] # "NONE"
          BY <1>2, <1>5, <3>2
        <4>2. ~(j > k) \/ j = k
          BY <1>7, <2>3, <3>2, <4>1
        <4> QED  BY <1>5, <4>2
      <3> QED  BY <2>6, <3>1, <3>2 DEF CodeLogsInOnce
    <2> QED  BY <1>1, <1>4, <1>7, <2>1, <2>4, <2>5, <2>7, LoginStep
  <1> QED
    BY <1>1, <1>3, <1>4, <1>6, <1>7, <1>8, IdleIs, OnlyLogin DEF RowSteps, MethodClaims, KycClaims

LEMMA VerifyOtpKeeps ==
    ASSUME IInv, NEW r \in Requests, VerifyOtp(r)
    PROVE  IInv'
  <1>1. PICK k \in Standing, pc \in {"overdue", "redeem"} : Begin(r, Login("verifyOtp", pc, k))
    BY DEF VerifyOtp
  <1> DEFINE new == Login("verifyOtp", pc, k)
  <1>2. Base /\ LoginInv /\ k \in Codes /\ k \in Nat /\ otp[k] = "ACTIVE"
    BY Whole DEF Standing, Codes
  <1>3. /\ new \in Records /\ new.op = "verifyOtp" /\ new.pc = pc /\ new.n = k
    BY <1>2 DEF Login, Call, Records, Ops, Steps, OnboardingStatus
  <1>4. Carries(new)
    BY <1>2, <1>3, OpsAtIs DEF Carries
  <1>5. Begin(r, new)
    BY <1>1
  <1> HIDE DEF new
  <1>6. /\ call' = [call EXCEPT ![r] = new] /\ Counted(r, new) /\ crossed \subseteq crossed'
        /\ "login" \notin crossed' => Busy("login") = {}
        /\ call[r].pc = "idle" /\ mix' = mix
    BY <1>2, <1>3, <1>5, BeginIs, TouchesIs
  <1>7. UNCHANGED <<otp, onboarding, profile, method, verification, logins, passed>>
    BY DEF VerifyOtp, rows, ghosts
  <1>8. OtpTyped'
    BY <1>2, <1>7, BaseIs DEF Typed, OtpTyped
  <1>9. LoginInv'
    <2>1. LoginRow(new)'
      BY <1>2, <1>3, <1>7 DEF LoginRow
    <2>2. CodeLogsInOnce'
      BY <1>2, <1>6, <1>7 DEF LoginInv, CodeLogsInOnce, Standing
    <2>3. "login" \notin crossed' =>
              /\ \A i, j \in Codes : i < j /\ otp'[i] = "NONE" => otp'[j] = "NONE"
              /\ \A j \in Codes : otp'[j] # "EXPIRED" => logins'[j] = 0
      BY <1>2, <1>6, <1>7 DEF LoginInv, LoginCourse
    <2> QED  BY <1>2, <1>6, <2>1, <2>2, <2>3, LoginStep
  <1> QED
    BY <1>3, <1>4, <1>6, <1>7, <1>8, <1>9, OnlyLogin DEF RowSteps, MethodClaims, KycClaims

\* verifyOtp writes: the code expires, overdue or redeemed.
LEMMA ExpireKeeps ==
    ASSUME IInv, NEW r \in Requests, Overdue(r) \/ Redeem(r)
    PROVE  IInv'
  <1>1. /\ Base /\ LoginInv /\ call[r].pc \in {"overdue", "redeem"} /\ Keeps
        /\ otp' = [otp EXCEPT ![call[r].n] = "EXPIRED"]
        /\ UNCHANGED <<onboarding, profile, method, verification, logins, passed>>
        /\ \/ Finish(r)
           \/ call[r].pc = "redeem" /\ Goto(r, "enter")
    BY Whole DEF Overdue, Redeem, At, ghosts
  <1>2. /\ otp \in [Codes -> OtpStatus] /\ logins \in [Codes -> Nat] /\ Carries(call[r])
        /\ call[r].n \in Codes
    BY <1>1, BaseIs DEF Typed, OtpTyped, Carries
  <1>3. PICK new \in Records :
            /\ call' = [call EXCEPT ![r] = new]
            /\ \/ new = Idle
               \/ /\ new.pc = "enter" /\ new.op = call[r].op /\ new.n = call[r].n
                  /\ call[r].pc = "redeem"
    BY <1>1, IdleIs, GotoIs DEF Finish, Steps
  <1>4. Carries(new) /\ new.pc \in {"idle", "enter"}
    BY <1>2, <1>3, IdleIs, OpsAtIs DEF Carries
  <1>5. OtpTyped'
    BY <1>1, <1>2 DEF OtpTyped, OtpStatus
  <1>6. /\ Counted(r, new) /\ crossed' = crossed /\ mix' = mix /\ Occupies(call[r], "login")
    BY <1>1, <1>2, <1>3, IdleIs, KeepsIs, ClaimsOccupy DEF LoginClaims
  <1>7. LoginInv'
    <2>1. "login" \notin crossed => otp[call[r].n] = "ACTIVE" /\ logins[call[r].n] = 0
      BY <1>1, <1>2 DEF LoginInv, LoginCourse, LoginRow
    <2>2. "login" \notin crossed' => LoginRow(new)'
      BY <1>1, <1>2, <1>3, <1>6, <2>1, IdleIs DEF LoginRow
    <2>3. "login" \notin crossed' =>
              \A i, j \in Codes : i < j /\ otp'[i] = "NONE" => otp'[j] = "NONE"
      BY <1>1, <1>2, <1>6, <2>1 DEF LoginInv, LoginCourse
    <2>4. "login" \notin crossed' => \A j \in Codes : otp'[j] # "EXPIRED" => logins'[j] = 0
      BY <1>1, <1>2, <1>6 DEF LoginInv, LoginCourse
    <2>5. CodeLogsInOnce'
      BY <1>1, <1>2, <1>6, <2>1 DEF LoginInv, CodeLogsInOnce, Standing
    <2> QED  BY <1>1, <1>3, <1>6, <2>2, <2>3, <2>4, <2>5, LoginStep
  <1> QED
    BY <1>1, <1>3, <1>4, <1>5, <1>6, <1>7, OnlyLogin DEF RowSteps, MethodClaims, KycClaims

LEMMA EnterKeeps ==
    ASSUME IInv, NEW r \in Requests, Enter(r)
    PROVE  IInv'
  <1>1. /\ Base /\ LoginInv /\ call[r].pc = "enter" /\ Keeps /\ Goto(r, "seed")
        /\ logins' = [logins EXCEPT ![call[r].n] = @ + 1]
        /\ UNCHANGED <<otp, onboarding, profile, method, verification, passed>>
    BY Whole DEF Enter, At, rows
  <1>2. /\ otp \in [Codes -> OtpStatus] /\ logins \in [Codes -> Nat] /\ Carries(call[r])
        /\ call[r].n \in Codes
    BY <1>1, BaseIs DEF Typed, OtpTyped, Carries
  <1>3. PICK new \in Records :
            call' = [call EXCEPT ![r] = new] /\ new.pc = "seed" /\ new.op = call[r].op
    BY <1>1, GotoIs DEF Steps
  <1>4. Carries(new)
    BY <1>1, <1>2, <1>3, OpsAtIs DEF Carries
  <1>5. OtpTyped'
    BY <1>1, <1>2 DEF OtpTyped
  <1>6. /\ Counted(r, new) /\ crossed' = crossed /\ mix' = mix /\ Occupies(call[r], "login")
    BY <1>1, <1>2, <1>3, KeepsIs, ClaimsOccupy DEF LoginClaims
  <1>7. LoginInv'
    <2>1. "login" \notin crossed => otp[call[r].n] = "EXPIRED" /\ logins[call[r].n] = 0
      BY <1>1 DEF LoginInv, LoginCourse, LoginRow
    <2>2. LoginRow(new)'
      BY <1>3 DEF LoginRow
    <2>3. "login" \notin crossed' =>
              /\ \A i, j \in Codes : i < j /\ otp'[i] = "NONE" => otp'[j] = "NONE"
              /\ \A j \in Codes : otp'[j] # "EXPIRED" => logins'[j] = 0
      BY <1>1, <1>2, <1>6, <2>1 DEF LoginInv, LoginCourse
    <2>4. CodeLogsInOnce'
      BY <1>1, <1>2, <1>6, <2>1 DEF LoginInv, CodeLogsInOnce, Standing
    <2> QED  BY <1>1, <1>3, <1>6, <2>2, <2>3, <2>4, LoginStep
  <1> QED
    BY <1>1, <1>3, <1>4, <1>5, <1>6, <1>7, OnlyLogin DEF RowSteps, MethodClaims, KycClaims

-------------------------------------------------------------------------------
(* Payment methods. *)

LEMMA DataIs ==
    ASSUME NEW op \in {"profile", "vehicle", "bank", "submit", "method", "prefer", "remove"},
           NEW v \in Vehicles \cup {NoVehicle}, NEW u \in Upis \cup {NoUpi}, NEW m \in Nat,
           NEW prefer \in BOOLEAN, OnboardingTyped
    PROVE  LET c == Data(op, v, u, m, prefer) IN
           /\ c \in Records /\ c.op = op /\ c.n = m /\ c.vehicle = v /\ c.upi = u
           /\ c.prefer = prefer
           /\ \/ c.pc = op
              \/ op \in {"profile", "vehicle", "bank"} /\ c.pc = "insert"
           /\ op \in {"profile", "vehicle", "bank"} => (c.pc = "insert" <=> ~HasRow)
           /\ op = "profile" => c.status = onboarding.status
  <1>1. onboarding.status \in OnboardingStatus /\ "NONE" \in OnboardingStatus
    BY DEF OnboardingTyped, OnboardingStatus
  <1>2. {op, "insert"} \subseteq Steps /\ op \in Ops
    BY DEF Steps, Ops
  <1> QED  BY <1>1, <1>2 DEF Data, Call, Records, HasRow

\* createPaymentMethod, setPreferredPaymentMethod or deletePaymentMethod arrives.
LEMMA MethodArrives ==
    ASSUME IInv, NEW r \in Requests, NEW op \in {"method", "prefer", "remove"},
           NEW u \in Upis \cup {NoUpi}, NEW m \in Nat, NEW prefer \in BOOLEAN,
           Begin(r, Data(op, NoVehicle, u, m, prefer)), UNCHANGED <<rows, ghosts>>,
           op = "method" => u \in Upis /\ (Active = {} => prefer),
           op = "prefer" => m \in Active,
           op = "remove" => m \in Active /\ (prefer <=> method[m].preferred)
    PROVE  IInv'
  <1> DEFINE d == Data(op, NoVehicle, u, m, prefer)
  <1>c. /\ d \in Records /\ d.op = op /\ d.pc = op /\ d.n = m /\ d.upi = u
        /\ d.prefer = prefer /\ OnboardingTyped /\ Begin(r, d)
    BY Whole, BaseIs, DataIs DEF Typed
  <1> HIDE DEF d
  <1>d. PICK new \in Records :
            /\ new.op = op /\ new.pc = op /\ new.n = m /\ new.upi = u
            /\ new.prefer = prefer /\ Begin(r, new)
    BY <1>c
  <1>1. Base /\ MethodInv /\ OnboardingTyped /\ Begin(r, new)
    BY <1>c, <1>d, Whole
  <1>2. /\ new \in Records /\ new.op = op /\ new.pc = op /\ new.n = m /\ new.upi = u
        /\ new.prefer = prefer
    BY <1>d
  <1>3. Carries(new)
    BY <1>2, OpsAtIs DEF Carries, Active
  <1>4. /\ call' = [call EXCEPT ![r] = new] /\ Counted(r, new) /\ crossed \subseteq crossed'
        /\ "methods" \notin crossed' => Busy("methods") = {}
        /\ call[r].pc = "idle" /\ mix' = mix
    BY <1>1, <1>2, BeginIs, TouchesIs
  <1>5. UNCHANGED <<otp, onboarding, profile, method, verification, logins, passed>>
    BY DEF rows, ghosts
  <1>6. MethodTyped' /\ OnePreferred'
    BY <1>1, <1>4, <1>5, BaseIs DEF Typed, MethodTyped, Active, MethodInv, OnePreferred
  <1>7. MethodRow(new)'
    BY <1>2, <1>5 DEF MethodRow, Active
  <1>8. MethodInv'
    BY <1>1, <1>4, <1>6, <1>7, MethodStep
  <1> QED
    BY <1>2, <1>3, <1>4, <1>5, <1>6, <1>8, OnlyMethods DEF RowSteps, LoginClaims, KycClaims

LEMMA MethodCallsKeep ==
    ASSUME IInv, NEW r \in Requests,
           \/ \E u \in Upis, wanted \in BOOLEAN : CreateMethod(r, u, wanted)
           \/ \E m \in Methods : SetPreferred(r, m) \/ Delete(r, m)
    PROVE  IInv'
  <1>1. ASSUME NEW u \in Upis, NEW wanted \in BOOLEAN, CreateMethod(r, u, wanted) PROVE IInv'
    <2> DEFINE prefer == wanted \/ Active = {}
    <2>1. prefer \in BOOLEAN /\ (Active = {} => prefer)
      OBVIOUS
    <2>2. 1 \in Nat /\ u \in Upis \cup {NoUpi}
      OBVIOUS
    <2>3. Begin(r, Data("method", NoVehicle, u, 1, prefer)) /\ UNCHANGED <<rows, ghosts>>
      BY <1>1 DEF CreateMethod
    <2> HIDE DEF prefer
    <2> QED  BY <2>1, <2>2, <2>3, MethodArrives
  <1>2. ASSUME NEW m \in Methods, SetPreferred(r, m) PROVE IInv'
    <2>1. m \in Nat /\ m \in Active
      BY <1>2 DEF SetPreferred, Methods, Active
    <2>2. NoUpi \in Upis \cup {NoUpi} /\ FALSE \in BOOLEAN
      OBVIOUS
    <2>3. Begin(r, Data("prefer", NoVehicle, NoUpi, m, FALSE)) /\ UNCHANGED <<rows, ghosts>>
      BY <1>2 DEF SetPreferred
    <2> QED  BY <2>1, <2>2, <2>3, MethodArrives
  <1>3. ASSUME NEW m \in Methods, Delete(r, m) PROVE IInv'
    <2>1. m \in Nat /\ m \in Active /\ method[m].preferred \in BOOLEAN
      BY <1>3, Whole, BaseIs DEF Delete, Methods, Active, Typed, MethodTyped
    <2>2. NoUpi \in Upis \cup {NoUpi}
      OBVIOUS
    <2>3. /\ Begin(r, Data("remove", NoVehicle, NoUpi, m, method[m].preferred))
          /\ UNCHANGED <<rows, ghosts>>
      BY <1>3 DEF Delete
    <2> QED  BY <2>1, <2>2, <2>3, MethodArrives
  <1> QED  BY <1>1, <1>2, <1>3

LEMMA UnpreferredIs ==
    ASSUME MethodTyped
    PROVE  /\ Unpreferred \in [Methods -> [upi : Upis \cup {NoUpi}, active : BOOLEAN, preferred : BOOLEAN]]
           /\ \A m \in Methods :
                  /\ Unpreferred[m].upi = method[m].upi /\ Unpreferred[m].active = method[m].active
                  /\ Unpreferred[m].preferred <=> method[m].preferred /\ ~method[m].active
  <1>1. ASSUME NEW m \in Methods
        PROVE  /\ Unpreferred[m] \in [upi : Upis \cup {NoUpi}, active : BOOLEAN, preferred : BOOLEAN]
               /\ Unpreferred[m].upi = method[m].upi /\ Unpreferred[m].active = method[m].active
               /\ Unpreferred[m].preferred <=> method[m].preferred /\ ~method[m].active
    BY DEF MethodTyped, Unpreferred
  <1> QED  BY <1>1 DEF Unpreferred

LEMMA FreeIsInactive ==
    ASSUME MethodTyped, NEW m \in Free
    PROVE  m \in Methods /\ m \notin Active
  BY NothingIsSomething DEF MethodTyped, Free, Active

\* What is known of a request at one of the steps of the payment methods.
LEMMA MethodContext ==
    ASSUME IInv, NEW r \in Requests,
           call[r].pc \in {"default", "unprefer", "add", "method", "prefer", "remove"}
    PROVE  /\ Base /\ MethodInv /\ MethodTyped /\ call \in [Requests -> Records]
           /\ call[r] \in Records /\ Carries(call[r]) /\ Occupies(call[r], "methods")
           /\ "methods" \notin crossed => MethodRow(call[r])
  <1>1. Base /\ MethodInv /\ MethodTyped /\ call \in [Requests -> Records] /\ Carries(call[r])
    BY Whole, BaseIs DEF Typed
  <1>2. Occupies(call[r], "methods")
    BY <1>1, ClaimsOccupy DEF MethodClaims
  <1> QED  BY <1>1, <1>2 DEF MethodInv, MethodCourse

\* A step that only looks.
LEMMA DefaultKeeps ==
    ASSUME IInv, NEW r \in Requests, Default(r)
    PROVE  IInv'
  <1>1. call[r].pc = "default" /\ Keeps /\ UNCHANGED <<rows, ghosts>>
    BY DEF Default, At
  <1>2. /\ Base /\ MethodInv /\ MethodTyped /\ call \in [Requests -> Records]
        /\ call[r] \in Records /\ Carries(call[r]) /\ Occupies(call[r], "methods")
    BY <1>1, MethodContext
  <1>3. PICK new \in Records :
            /\ call' = [call EXCEPT ![r] = new]
            /\ \/ new = Idle
               \/ /\ new.op = call[r].op /\ new.upi = call[r].upi
                  /\ \/ new.pc = "unprefer" /\ Active = {} /\ new.prefer
                     \/ new.pc = "add" /\ Active # {} /\ ~new.prefer
    <2>1. CASE Finish(r)
      BY <2>1, IdleIs DEF Finish
    <2>2. CASE ~Finish(r)
      <3> DEFINE new == [call[r] EXCEPT !.pc = IF Active = {} THEN "unprefer" ELSE "add",
                                        !.prefer = (Active = {})]
      <3>1. call' = [call EXCEPT ![r] = new]
        BY <1>2, <2>2 DEF Default
      <3>2. new \in Records /\ new.op = call[r].op /\ new.upi = call[r].upi
        BY <1>2 DEF Records, Steps
      <3>3. \/ new.pc = "unprefer" /\ Active = {} /\ new.prefer
            \/ new.pc = "add" /\ Active # {} /\ ~new.prefer
        BY <1>2 DEF Records
      <3> HIDE DEF new
      <3> QED  BY <3>1, <3>2, <3>3
    <2> QED  BY <2>1, <2>2
  <1>4. Carries(new)
    BY <1>1, <1>2, <1>3, IdleIs, OpsAtIs DEF Carries
  <1>5. /\ Counted(r, new) /\ crossed' = crossed /\ mix' = mix
    BY <1>1, <1>2, <1>3, IdleIs, KeepsIs
  <1>6. UNCHANGED <<otp, onboarding, profile, method, verification, logins, passed>>
    BY <1>1 DEF rows, ghosts
  <1>7. MethodTyped' /\ OnePreferred'
    BY <1>2, <1>5, <1>6 DEF MethodTyped, Active, MethodInv, OnePreferred
  <1>8. MethodRow(new)'
    BY <1>3, <1>6, IdleIs DEF MethodRow, Active
  <1>9. MethodInv'
    BY <1>2, <1>3, <1>5, <1>7, <1>8, MethodStep
  <1> QED
    BY <1>1, <1>2, <1>3, <1>4, <1>5, <1>6, <1>7, <1>9, IdleIs, OnlyMethods
       DEF RowSteps, LoginClaims, KycClaims

LEMMA UnpreferKeeps ==
    ASSUME IInv, NEW r \in Requests, Unprefer(r)
    PROVE  IInv'
  <1>1. /\ call[r].pc = "unprefer" /\ Keeps /\ method' = Unpreferred /\ Goto(r, "add")
        /\ UNCHANGED <<otp, onboarding, profile, verification, logins, passed>>
    BY DEF Unprefer, At, ghosts
  <1>2. /\ Base /\ MethodInv /\ MethodTyped /\ Carries(call[r]) /\ Occupies(call[r], "methods")
        /\ "methods" \notin crossed => Active = {} /\ call[r].prefer
    BY <1>1, MethodContext DEF MethodRow
  <1>3. PICK new \in Records :
            /\ call' = [call EXCEPT ![r] = new] /\ new.pc = "add" /\ new.op = call[r].op
            /\ new.upi = call[r].upi /\ new.prefer = call[r].prefer
    BY <1>1, <1>2, GotoIs DEF Steps
  <1>4. Carries(new)
    BY <1>1, <1>2, <1>3, OpsAtIs DEF Carries
  <1>5. /\ Counted(r, new) /\ crossed' = crossed /\ mix' = mix
    BY <1>1, <1>2, <1>3, KeepsIs
  <1>6. MethodTyped' /\ Active' = Active
    BY <1>1, <1>2, UnpreferredIs DEF MethodTyped, Active
  <1>7. MethodInv'
    <2>1. "methods" \notin crossed' => MethodRow(new)'
      BY <1>2, <1>3, <1>5, <1>6 DEF MethodRow
    <2>2. OnePreferred'
      <3>1. ASSUME "methods" \notin crossed'
            PROVE  Active' = {} /\ \A m \in Methods : ~method'[m].preferred
        BY <1>1, <1>2, <1>5, <1>6, <3>1, UnpreferredIs DEF MethodInv, OnePreferred
      <3> QED  BY <3>1 DEF OnePreferred
    <2> QED  BY <1>2, <1>3, <1>5, <2>1, <2>2, MethodStep
  <1> QED
    BY <1>1, <1>2, <1>3, <1>4, <1>5, <1>6, <1>7, OnlyMethods DEF RowSteps, LoginClaims, KycClaims

\* A method is added: the default or the driver's.
LEMMA AddKeeps ==
    ASSUME IInv, NEW r \in Requests, Add(r) \/ InsertMethod(r)
    PROVE  IInv'
  <1> DEFINE b == IF call[r].pc = "method" /\ call[r].prefer THEN Unpreferred ELSE method
  <1>1. /\ call[r].pc \in {"add", "method"} /\ Keeps
        /\ UNCHANGED <<otp, onboarding, profile, verification, logins, passed>>
        /\ \E m \in Free : method' = [b EXCEPT ![m] = Method(call[r].upi, TRUE, call[r].prefer)]
        /\ \/ call[r].pc = "add" /\ Finish(r)
           \/ call[r].pc = "method" /\ Goto(r, "fillUpi")
    BY DEF Add, InsertMethod, At, ghosts
  <1>2. /\ Base /\ MethodInv /\ MethodTyped /\ call[r] \in Records
        /\ Carries(call[r]) /\ Occupies(call[r], "methods")
        /\ "methods" \notin crossed => MethodRow(call[r])
    BY <1>1, MethodContext
  <1>3. PICK new \in Records :
            /\ call' = [call EXCEPT ![r] = new]
            /\ \/ new = Idle
               \/ /\ new.pc = "fillUpi" /\ new.op = call[r].op /\ new.upi = call[r].upi
                  /\ call[r].pc = "method"
    BY <1>1, <1>2, IdleIs, GotoIs DEF Finish, Steps
  <1>4. Carries(new)
    BY <1>1, <1>2, <1>3, IdleIs, OpsAtIs DEF Carries
  <1>5. /\ Counted(r, new) /\ crossed' = crossed /\ mix' = mix
    BY <1>1, <1>2, <1>3, IdleIs, KeepsIs
  <1>6. PICK m \in Free : method' = [b EXCEPT ![m] = Method(call[r].upi, TRUE, call[r].prefer)]
    BY <1>1
  <1>7. m \in Methods /\ m \notin Active /\ call[r].upi \in Upis /\ call[r].prefer \in BOOLEAN
    BY <1>1, <1>2, FreeIsInactive DEF Carries, Records
  <1>8. /\ method' \in [Methods -> [upi : Upis \cup {NoUpi}, active : BOOLEAN, preferred : BOOLEAN]]
        /\ method'[m] = Method(call[r].upi, TRUE, call[r].prefer)
        /\ \A q \in Methods : q # m =>
               /\ method'[q].upi = method[q].upi /\ method'[q].active = method[q].active
               /\ ~(call[r].pc = "method" /\ call[r].prefer) =>
                      method'[q].preferred = method[q].preferred
               /\ call[r].pc = "method" /\ call[r].prefer /\ method[q].active =>
                      ~method'[q].preferred
               /\ ~method[q].preferred => ~method'[q].preferred
    <2>1. b \in [Methods -> [upi : Upis \cup {NoUpi}, active : BOOLEAN, preferred : BOOLEAN]]
      BY <1>2, UnpreferredIs DEF MethodTyped
    <2>2. \A q \in Methods :
              /\ b[q].upi = method[q].upi /\ b[q].active = method[q].active
              /\ ~(call[r].pc = "method" /\ call[r].prefer) => b[q].preferred = method[q].preferred
              /\ call[r].pc = "method" /\ call[r].prefer /\ method[q].active => ~b[q].preferred
              /\ ~method[q].preferred => ~b[q].preferred
      BY <1>2, UnpreferredIs
    <2>3. Method(call[r].upi, TRUE, call[r].prefer)
              \in [upi : Upis \cup {NoUpi}, active : BOOLEAN, preferred : BOOLEAN]
      BY <1>7 DEF Method
    <2> HIDE DEF b
    <2> QED  BY <1>6, <1>7, <2>1, <2>2, <2>3
  <1>9. /\ method'[m].upi = call[r].upi /\ method'[m].active
        /\ method'[m].preferred <=> call[r].prefer
    BY <1>7, <1>8 DEF Method
  <1>10. Active' = Active \cup {m}
    BY <1>7, <1>8, <1>9 DEF Active
  <1>11. MethodTyped'
    <2>1. \A q \in Active' : method'[q].upi \in Upis
      BY <1>2, <1>7, <1>8, <1>9, <1>10 DEF MethodTyped, Active
    <2> QED  BY <1>8, <2>1 DEF MethodTyped
  <1>12. MethodInv'
    <2>1. MethodRow(new)'
      BY <1>3, IdleIs DEF MethodRow
    <2>2. OnePreferred'
      <3>1. ASSUME "methods" \notin crossed PROVE
                LET preferred == {q \in Methods : method'[q].preferred} IN
                preferred \subseteq Active' /\ \E q \in preferred : preferred = {q}
        <4> DEFINE old == {q \in Methods : method[q].preferred}
        <4>1. old \subseteq Active /\ (Active # {} => \E q \in old : old = {q})
          BY <1>2, <3>1 DEF MethodInv, OnePreferred
        <4>2. CASE call[r].prefer
          <5>1. \A q \in Methods : q # m => ~method'[q].preferred
            <6>1. CASE call[r].pc = "method"
              BY <1>8, <4>1, <4>2, <6>1 DEF Active
            <6>2. CASE call[r].pc = "add"
              BY <1>2, <1>8, <3>1, <4>1, <4>2, <6>2 DEF MethodRow
            <6> QED  BY <1>1, <6>1, <6>2
          <5> QED  BY <1>7, <1>9, <1>10, <4>2, <5>1
        <4>3. CASE ~call[r].prefer
          <5>1. Active # {}
            BY <1>1, <1>2, <3>1, <4>3 DEF MethodRow
          <5>2. {q \in Methods : method'[q].preferred} = old
            BY <1>7, <1>8, <1>9, <4>1, <4>3
          <5> QED  BY <1>10, <4>1, <5>1, <5>2
        <4> QED  BY <4>2, <4>3
      <3> QED  BY <1>5, <3>1 DEF OnePreferred
    <2> QED  BY <1>2, <1>3, <1>5, <2>1, <2>2, MethodStep
  <1> HIDE DEF b
  <1> QED
    BY <1>1, <1>2, <1>3, <1>4, <1>5, <1>11, <1>12, IdleIs, OnlyMethods
       DEF RowSteps, LoginClaims, KycClaims

\* A transaction that ends the request and leaves the methods as they were or better.
LEMMA MethodEnds ==
    ASSUME IInv, NEW r \in Requests, call[r].pc \in {"prefer", "remove"}, Keeps, Finish(r),
           UNCHANGED <<otp, onboarding, profile, verification, ghosts>>,
           MethodTyped', "methods" \notin crossed => OnePreferred'
    PROVE  IInv'
  <1>1. /\ Base /\ Carries(call[r]) /\ Occupies(call[r], "methods")
    BY MethodContext
  <1>2. call' = [call EXCEPT ![r] = Idle]
    BY DEF Finish
  <1>3. Counted(r, Idle) /\ crossed' = crossed /\ mix' = mix
    BY <1>1, IdleIs, KeepsIs
  <1>4. MethodRow(Idle)'
    BY IdleIs DEF MethodRow
  <1>5. OnePreferred'
    BY <1>3 DEF OnePreferred
  <1>6. MethodInv'
    BY <1>1, <1>2, <1>3, <1>4, <1>5, MethodStep
  <1> QED
    BY <1>2, <1>3, <1>6, IdleIs, OnlyMethods DEF ghosts, RowSteps, LoginClaims, KycClaims

LEMMA PreferKeeps ==
    ASSUME IInv, NEW r \in Requests, Prefer(r)
    PROVE  IInv'
  <1> DEFINE m == call[r].n
  <1>1. /\ call[r].pc = "prefer" /\ Keeps /\ Finish(r)
        /\ method' = [Unpreferred EXCEPT ![m].preferred = TRUE]
        /\ UNCHANGED <<otp, onboarding, profile, verification, ghosts>>
    BY DEF Prefer, At
  <1>2. /\ MethodInv /\ MethodTyped /\ m \in Methods
        /\ "methods" \notin crossed => m \in Active
    BY <1>1, MethodContext DEF MethodRow, Carries
  <1> HIDE DEF m
  <1>3. /\ method' \in [Methods -> [upi : Upis \cup {NoUpi}, active : BOOLEAN, preferred : BOOLEAN]]
        /\ method'[m].preferred
        /\ \A q \in Methods :
               /\ method'[q].upi = method[q].upi /\ method'[q].active = method[q].active
               /\ q # m => (method'[q].preferred <=> method[q].preferred /\ ~method[q].active)
    BY <1>1, <1>2, UnpreferredIs
  <1>4. Active' = Active
    BY <1>3 DEF Active
  <1>5. MethodTyped'
    BY <1>2, <1>3, <1>4 DEF MethodTyped, Active
  <1>6. ASSUME "methods" \notin crossed PROVE OnePreferred'
    <2>1. \A q \in Methods : method'[q].preferred <=> q = m
      BY <1>2, <1>3, <1>6 DEF MethodInv, OnePreferred, Active
    <2>2. {q \in Methods : method'[q].preferred} = {m}
      BY <1>2, <2>1
    <2> QED  BY <1>2, <1>4, <1>6, <2>2 DEF OnePreferred
  <1> QED  BY <1>1, <1>5, <1>6, MethodEnds

LEMMA RemoveKeeps ==
    ASSUME IInv, NEW r \in Requests, Remove(r)
    PROVE  IInv'
  <1> DEFINE m == call[r].n
  <1>1. /\ call[r].pc = "remove" /\ Keeps /\ Finish(r)
        /\ IF call[r].prefer /\ Active \ {m} # {}
           THEN \E o \in Active \ {m} : method' = [Removed(m) EXCEPT ![o].preferred = TRUE]
           ELSE method' = Removed(m)
        /\ UNCHANGED <<otp, onboarding, profile, verification, ghosts>>
    BY DEF Remove, At
  <1>2. /\ MethodInv /\ MethodTyped /\ m \in Methods
        /\ "methods" \notin crossed => m \in Active /\ (call[r].prefer <=> method[m].preferred)
    BY <1>1, MethodContext DEF MethodRow, Carries
  <1> HIDE DEF m
  <1>3. /\ Removed(m) \in [Methods -> [upi : Upis \cup {NoUpi}, active : BOOLEAN, preferred : BOOLEAN]]
        /\ ~Removed(m)[m].active /\ ~Removed(m)[m].preferred
        /\ \A q \in Methods : /\ Removed(m)[q].upi = method[q].upi
                              /\ q # m => Removed(m)[q] = method[q]
    BY <1>2 DEF Removed, MethodTyped
  <1>4. CASE call[r].prefer /\ Active \ {m} # {}
    <2>1. PICK o \in Active \ {m} : method' = [Removed(m) EXCEPT ![o].preferred = TRUE]
      BY <1>1, <1>4
    <2>2. /\ method' \in [Methods -> [upi : Upis \cup {NoUpi}, active : BOOLEAN, preferred : BOOLEAN]]
          /\ o \in Methods /\ o # m /\ method'[o].preferred /\ method'[o].active
          /\ method'[o].upi = method[o].upi
          /\ ~method'[m].active /\ ~method'[m].preferred
          /\ \A q \in Methods : q # m /\ q # o => method'[q] = method[q]
      BY <1>2, <1>3, <2>1 DEF Active
    <2>3. Active' = Active \ {m}
      BY <2>1, <2>2 DEF Active
    <2>4. MethodTyped'
      <3>1. \A q \in Active' : method'[q].upi \in Upis
        BY <1>2, <2>1, <2>2, <2>3 DEF MethodTyped, Active
      <3> QED  BY <2>2, <3>1 DEF MethodTyped
    <2>5. ASSUME "methods" \notin crossed PROVE OnePreferred'
      <3>1. {q \in Methods : method[q].preferred} = {m}
        BY <1>2, <1>4, <2>5 DEF MethodInv, OnePreferred
      <3>2. {q \in Methods : method'[q].preferred} = {o}
        BY <2>2, <3>1
      <3> QED  BY <2>1, <2>3, <3>2 DEF OnePreferred
    <2> QED  BY <1>1, <2>4, <2>5, MethodEnds
  <1>5. CASE ~(call[r].prefer /\ Active \ {m} # {})
    <2>1. method' = Removed(m)
      BY <1>1, <1>5
    <2>2. Active' = Active \ {m}
      BY <1>2, <1>3, <2>1 DEF Active
    <2>3. MethodTyped'
      <3>1. \A q \in Active' : method'[q].upi \in Upis
        BY <1>2, <1>3, <2>1, <2>2 DEF MethodTyped, Active
      <3> QED  BY <1>3, <2>1, <3>1 DEF MethodTyped
    <2>4. ASSUME "methods" \notin crossed PROVE OnePreferred'
      <3> DEFINE old == {q \in Methods : method[q].preferred}
      <3>1. old \subseteq Active /\ (Active # {} => \E q \in old : old = {q})
        BY <1>2, <2>4 DEF MethodInv, OnePreferred
      <3>2. {q \in Methods : method'[q].preferred} = old \ {m}
        BY <1>2, <1>3, <2>1
      <3>3. CASE Active' = {}
        BY <2>2, <3>1, <3>2, <3>3 DEF OnePreferred
      <3>4. CASE Active' # {}
        <4>1. ~call[r].prefer /\ ~method[m].preferred
          BY <1>2, <1>5, <2>2, <2>4, <3>4
        <4>2. old \ {m} = old
          BY <4>1
        <4> QED  BY <2>2, <3>1, <3>2, <3>4, <4>1, <4>2 DEF OnePreferred
      <3> QED  BY <3>3, <3>4
    <2> QED  BY <1>1, <2>3, <2>4, MethodEnds
  <1> QED  BY <1>4, <1>5

-------------------------------------------------------------------------------
(* Onboarding and verification. *)

LEMMA KycContext ==
    ASSUME IInv, NEW r \in Requests, call[r].pc \in RowSteps \cup {"insert", "fillUpi"}
    PROVE  /\ Base /\ KycInv /\ OnboardingTyped /\ KycTyped /\ VerifiedHasRow
           /\ call \in [Requests -> Records] /\ call[r] \in Records /\ Carries(call[r])
           /\ Occupies(call[r], "kyc") /\ (call[r].pc \in RowSteps => HasRow)
           /\ "kyc" \notin crossed => KycRow(call[r]) /\ (call[r].pc # "enlist" => InForce)
  <1>1. /\ Base /\ KycInv /\ OnboardingTyped /\ KycTyped /\ VerifiedHasRow
        /\ call \in [Requests -> Records] /\ \A q \in Requests : Carries(call[q])
        /\ call[r].pc \in RowSteps => HasRow
    BY Whole, BaseIs DEF Typed
  <1>2. Occupies(call[r], "kyc")
    BY <1>1, ClaimsOccupy
  <1>3. ASSUME "kyc" \notin crossed, call[r].pc # "enlist", NEW q \in Requests PROVE ~At(q, "enlist")
    <2>1. call[q].pc = "enlist" => Occupies(call[q], "kyc")
      BY <1>1, ClaimsOccupy DEF KycClaims
    <2> QED  BY <1>1, <1>2, <1>3, <2>1 DEF Base, Sole, At, Areas
  <1> QED  BY <1>1, <1>2, <1>3 DEF KycInv, KycCourse

LEMMA KycArrives ==
    ASSUME IInv, NEW r \in Requests, NEW new \in Records, Begin(r, new), Carries(new),
           "kyc" \in Touches(new.op), UNCHANGED <<otp, onboarding, profile, method, ghosts>>,
           verification' \in [Verifications -> KycStatus], VerifiedHasRow',
           new.pc \in RowSteps => HasRow,
           new.pc \notin LoginClaims \cup MethodClaims \cup {"enlist"}, KycRow(new)
    PROVE  IInv'
  <1>1. Base /\ KycInv /\ OnboardingTyped /\ KycTyped /\ \A q \in Requests : Carries(call[q])
    BY Whole, BaseIs DEF Typed
  <1>2. /\ call' = [call EXCEPT ![r] = new] /\ Counted(r, new) /\ crossed \subseteq crossed'
        /\ "kyc" \notin crossed' => Busy("kyc") = {}
        /\ call[r].pc = "idle" /\ mix' = mix
    BY <1>1, BeginIs
  <1>3. UNCHANGED <<onboarding, profile, logins, passed>> /\ HasRow' = HasRow
    BY DEF ghosts, HasRow
  <1>4. OnboardingTyped' /\ KycTyped'
    BY <1>1, <1>3 DEF OnboardingTyped, KycTyped
  <1>5. KycRow(new)'
    BY <1>2, <1>3 DEF KycRow, Happens
  <1>6. ASSUME "kyc" \notin crossed' PROVE InForce'
    <2>1. ASSUME NEW q \in Requests PROVE ~At(q, "enlist")
      <3>1. call[q].pc = "enlist" => Occupies(call[q], "kyc")
        BY <1>1, ClaimsOccupy DEF KycClaims
      <3>2. ~Occupies(call[q], "kyc")
        BY <1>2, <1>6 DEF Busy, Occupies, At
      <3> QED  BY <3>1, <3>2 DEF At
    <2> QED  BY <1>1, <1>2, <1>3, <1>6, <2>1 DEF KycInv, KycCourse, InForce
  <1>7. ApprovedWasVerified'
    BY <1>1, <1>2, <1>3 DEF KycInv, ApprovedWasVerified, Happens
  <1>8. KycInv'
    BY <1>1, <1>2, <1>5, <1>6, <1>7, KycStep
  <1> QED  BY <1>2, <1>3, <1>4, <1>8, OnlyKyc

\* The driver's data arrives.
LEMMA DataArrives ==
    ASSUME IInv, NEW r \in Requests, NEW op \in {"profile", "vehicle", "bank", "submit"},
           NEW v \in Vehicles \cup {NoVehicle}, NEW u \in Upis \cup {NoUpi},
           Begin(r, Data(op, v, u, 1, FALSE)), UNCHANGED <<rows, ghosts>>,
           op = "bank" => u \in Upis, op = "submit" => onboarding.vehicle # NoVehicle
    PROVE  IInv'
  <1> DEFINE d == Data(op, v, u, 1, FALSE)
  <1>1. OnboardingTyped /\ VerifiedHasRow /\ KycTyped
    BY Whole, BaseIs DEF Typed
  <1>2. /\ d \in Records /\ d.op = op /\ d.upi = u /\ Begin(r, d)
        /\ \/ d.pc = op
           \/ op \in {"profile", "vehicle", "bank"} /\ d.pc = "insert"
        /\ op \in {"profile", "vehicle", "bank"} => (d.pc = "insert" <=> ~HasRow)
        /\ op = "profile" => d.status = onboarding.status
    <2>1. onboarding.status \in OnboardingStatus /\ "NONE" \in OnboardingStatus
      BY <1>1 DEF OnboardingTyped, OnboardingStatus
    <2>2. {op, "insert"} \subseteq Steps /\ op \in Ops
      BY DEF Steps, Ops
    <2> QED  BY <2>1, <2>2 DEF Data, Call, Records, HasRow
  <1> HIDE DEF d
  <1>3. Carries(d)
    BY <1>2, OpsAtIs DEF Carries, HasRow
  <1>4. d.pc \in RowSteps => HasRow
    BY <1>1, <1>2 DEF OnboardingTyped, HasRow, RowSteps
  <1>5. KycRow(d)
    BY <1>2 DEF KycRow
  <1>6. "kyc" \in Touches(d.op) /\ d.pc \notin LoginClaims \cup MethodClaims \cup {"enlist"}
    BY <1>2, TouchesIs DEF LoginClaims, MethodClaims
  <1>7. /\ UNCHANGED <<otp, onboarding, profile, method, ghosts>>
        /\ verification' \in [Verifications -> KycStatus] /\ VerifiedHasRow'
    BY <1>1 DEF rows, VerifiedHasRow, KycTyped, HasRow
  <1> QED  BY <1>2, <1>3, <1>4, <1>5, <1>6, <1>7, KycArrives

LEMMA DataCallsKeep ==
    ASSUME IInv, NEW r \in Requests,
           \/ SaveProfile(r) \/ Submit(r)
           \/ \E v \in Vehicles : SaveVehicle(r, v)
           \/ \E u \in Upis : SaveBank(r, u)
    PROVE  IInv'
  <1>0. NoVehicle \in Vehicles \cup {NoVehicle} /\ NoUpi \in Upis \cup {NoUpi}
    OBVIOUS
  <1>1. CASE SaveProfile(r)
    BY <1>0, <1>1, DataArrives DEF SaveProfile
  <1>2. CASE Submit(r)
    BY <1>0, <1>2, DataArrives DEF Submit
  <1>3. ASSUME NEW v \in Vehicles, SaveVehicle(r, v) PROVE IInv'
    <2>1. v \in Vehicles \cup {NoVehicle}
      OBVIOUS
    <2> QED  BY <1>0, <1>3, <2>1, DataArrives DEF SaveVehicle
  <1>4. ASSUME NEW u \in Upis, SaveBank(r, u) PROVE IInv'
    <2>1. u \in Upis \cup {NoUpi}
      OBVIOUS
    <2> QED  BY <1>0, <1>4, <2>1, DataArrives DEF SaveBank
  <1> QED  BY <1>1, <1>2, <1>3, <1>4

\* A verification or a decision arrives.
LEMMA KycCallsKeep ==
    ASSUME IInv, NEW r \in Requests,
           \/ Verify(r)
           \/ /\ Happens("Decide")
              /\ \E k \in Verifications, op \in {"approve", "reject"} : Decide(r, k, op)
    PROVE  IInv'
  <1>1. OnboardingTyped /\ VerifiedHasRow /\ KycTyped
    BY Whole, BaseIs DEF Typed
  <1>2. CASE Verify(r)
    <2> DEFINE d == Kyc("verify", "ask", onboarding.vehicle)
    <2>1. /\ d \in Records /\ d.op = "verify" /\ d.pc = "ask" /\ d.vehicle = onboarding.vehicle
          /\ Begin(r, d)
      BY <1>1, <1>2 DEF Verify, Kyc, Call, Records, Ops, Steps, OnboardingStatus, OnboardingTyped
    <2>2. HasRow /\ UNCHANGED <<otp, onboarding, profile, method, verification, ghosts>>
      BY <1>2 DEF Verify, HasRow, rows
    <2> HIDE DEF d
    <2>3. Carries(d) /\ KycRow(d) /\ "kyc" \in Touches(d.op)
      BY <2>1, OpsAtIs, TouchesIs DEF Carries, KycRow
    <2>4. d.pc \notin LoginClaims \cup MethodClaims \cup {"enlist"}
      BY <2>1 DEF LoginClaims, MethodClaims
    <2>5. verification' \in [Verifications -> KycStatus] /\ VerifiedHasRow'
      BY <1>1, <2>2 DEF KycTyped, VerifiedHasRow, HasRow
    <2> QED  BY <2>1, <2>2, <2>3, <2>4, <2>5, KycArrives
  <1>3. ASSUME NEW k \in Verifications, NEW op \in {"approve", "reject"}, Decide(r, k, op),
               Happens("Decide")
        PROVE  IInv'
    <2> DEFINE d == Kyc(op, op, NoVehicle)
    <2>1. d \in Records /\ d.op = op /\ d.pc = op /\ Begin(r, d)
      BY <1>3 DEF Decide, Kyc, Call, Records, Ops, Steps, OnboardingStatus
    <2>2. HasRow /\ UNCHANGED <<otp, onboarding, profile, method, ghosts>>
      BY <1>1, <1>3 DEF Decide, VerifiedHasRow
    <2> HIDE DEF d
    <2>3. Carries(d) /\ KycRow(d) /\ "kyc" \in Touches(d.op)
      BY <1>3, <2>1, OpsAtIs, TouchesIs DEF Carries, KycRow
    <2>4. d.pc \notin LoginClaims \cup MethodClaims \cup {"enlist"}
      BY <2>1 DEF LoginClaims, MethodClaims
    <2>5. verification' \in [Verifications -> KycStatus] /\ VerifiedHasRow'
      BY <1>1, <1>3, <2>2 DEF Decide, KycTyped, KycStatus, VerifiedHasRow, HasRow
    <2> QED  BY <2>1, <2>2, <2>3, <2>4, <2>5, KycArrives
  <1> QED  BY <1>2, <1>3

\* A later step: it keeps the types and the course if it leaves behind what new relies on.
LEMMA KycMoves ==
    ASSUME IInv, NEW r \in Requests, call[r].pc \in RowSteps \cup {"insert", "fillUpi"}, Keeps,
           NEW new \in Records, Carries(new), call' = [call EXCEPT ![r] = new],
           new.pc = "idle" \/ new.op = call[r].op,
           UNCHANGED <<otp, method, logins>>, OnboardingTyped', KycTyped', VerifiedHasRow',
           HasRow => HasRow', new.pc \in RowSteps => HasRow',
           new.pc \notin LoginClaims \cup MethodClaims,
           "kyc" \notin crossed =>
               /\ KycRow(new)' /\ (new.pc # "enlist" => InForce')
               /\ ~Happens("Decide") => profile' \in passed' \cup {NoVehicle}
    PROVE  IInv'
  <1>1. Base /\ Occupies(call[r], "kyc")
    BY KycContext
  <1>2. Counted(r, new) /\ crossed' = crossed /\ crossed \subseteq crossed' /\ mix' = mix
    <2>1. new.pc = "idle" \/ (call[r].pc # "idle" /\ new.op = call[r].op)
      BY DEF RowSteps
    <2> QED  BY <1>1, <2>1, KeepsIs
  <1>3. ApprovedWasVerified'
    BY <1>2 DEF ApprovedWasVerified, Happens
  <1>4. KycInv'
    BY <1>1, <1>2, <1>3, KycStep
  <1> QED  BY <1>2, <1>4, OnlyKyc

\* The last step of a request writes the onboarding row.
LEMMA KycEnds ==
    ASSUME IInv, NEW r \in Requests, call[r].pc \in (RowSteps \cup {"insert", "fillUpi"}) \ {"enlist"},
           Keeps, Finish(r), UNCHANGED <<otp, profile, method, verification, ghosts>>,
           OnboardingTyped', HasRow => HasRow', "kyc" \notin crossed => InForce'
    PROVE  IInv'
  <1>1. /\ KycInv /\ KycTyped /\ VerifiedHasRow
    BY KycContext
  <1>2. call' = [call EXCEPT ![r] = Idle]
    BY DEF Finish
  <1>3. KycTyped' /\ VerifiedHasRow'
    BY <1>1 DEF KycTyped, VerifiedHasRow, ghosts
  <1>4. KycRow(Idle)'
    BY IdleIs DEF KycRow
  <1>5. "kyc" \notin crossed => (~Happens("Decide") => profile' \in passed' \cup {NoVehicle})
    BY <1>1 DEF KycInv, ApprovedWasVerified, ghosts
  <1>6. /\ Idle.pc \notin LoginClaims \cup MethodClaims \cup RowSteps /\ UNCHANGED <<otp, method, logins>>
        /\ Idle \in Records /\ Carries(Idle) /\ Idle.pc = "idle"
    BY IdleIs DEF LoginClaims, MethodClaims, RowSteps, ghosts
  <1> QED  BY <1>2, <1>3, <1>4, <1>5, <1>6, KycMoves

LEMMA WritesKeep ==
    ASSUME IInv, NEW r \in Requests,
           \/ WriteProfile(r) \/ WriteVehicle(r) \/ WriteSubmit(r) \/ FillUpi(r)
           \/ Reject(r) \/ Reopen(r)
    PROVE  IInv'
  <1>1. /\ call[r].pc \in {"profile", "vehicle", "submit", "fillUpi", "reject", "reopen"}
        /\ Keeps /\ Finish(r) /\ UNCHANGED <<otp, profile, method, verification, ghosts>>
    BY DEF WriteProfile, WriteVehicle, WriteSubmit, FillUpi, Reject, Reopen, At
  <1>2. /\ OnboardingTyped /\ call[r] \in Records /\ Carries(call[r])
        /\ call[r].pc # "fillUpi" => HasRow
        /\ "kyc" \notin crossed => KycRow(call[r]) /\ InForce
    BY <1>1, KycContext DEF RowSteps
  <1>3. /\ onboarding \in [status : OnboardingStatus, vehicle : Vehicles \cup {NoVehicle},
                           upi : Upis \cup {NoUpi}]
        /\ call[r].status \in OnboardingStatus /\ call[r].vehicle \in Vehicles \cup {NoVehicle}
        /\ call[r].upi \in Upis \cup {NoUpi}
    BY <1>2 DEF OnboardingTyped, Records
  <1>4. OnboardingTyped' /\ HasRow' = HasRow /\ ("kyc" \notin crossed => InForce')
    <2>1. CASE WriteProfile(r)
      <3> DEFINE s == IF call[r].status = "NOT_STARTED" THEN "IN_PROGRESS" ELSE call[r].status
      <3>1. /\ onboarding' = [onboarding EXCEPT !.status = s] /\ call[r].pc = "profile"
        BY <2>1 DEF WriteProfile, At
      <3>2. /\ s \in OnboardingStatus /\ s # "NONE"
            /\ s = "APPROVED" => call[r].status = "APPROVED"
        BY <1>2, <1>3, <3>1 DEF OnboardingStatus, Carries
      <3> HIDE DEF s
      <3>3. /\ onboarding'.status = s /\ onboarding'.vehicle = onboarding.vehicle
            /\ onboarding' \in [status : OnboardingStatus, vehicle : Vehicles \cup {NoVehicle},
                                upi : Upis \cup {NoUpi}]
        BY <1>3, <3>1, <3>2
      <3>4. "kyc" \notin crossed => InForce'
        BY <1>1, <1>2, <3>1, <3>2, <3>3 DEF KycRow, InForce
      <3> QED  BY <1>1, <1>2, <3>1, <3>2, <3>3, <3>4 DEF OnboardingTyped, HasRow
    <2>2. CASE WriteVehicle(r)
      <3>1. onboarding' = Onboarding("IN_PROGRESS", call[r].vehicle, onboarding.upi) /\ HasRow
        BY <1>2, <2>2 DEF WriteVehicle, Saved, At
      <3> QED  BY <1>3, <3>1 DEF Onboarding, OnboardingTyped, OnboardingStatus, HasRow, InForce
    <2>3. CASE WriteSubmit(r) \/ Reject(r) \/ Reopen(r)
      <3>1. PICK s \in {"SUBMITTED", "REJECTED", "IN_PROGRESS"} :
                onboarding' = [onboarding EXCEPT !.status = s]
        BY <2>3 DEF WriteSubmit, Reject, Reopen
      <3>2. HasRow
        BY <1>2, <2>3 DEF WriteSubmit, Reject, Reopen, At
      <3> QED  BY <1>3, <3>1, <3>2 DEF OnboardingTyped, OnboardingStatus, HasRow, InForce
    <2>4. CASE FillUpi(r)
      <3>1. CASE HasRow /\ onboarding.upi = NoUpi
        <4>1. onboarding' = Onboarding("IN_PROGRESS", onboarding.vehicle, call[r].upi)
          BY <2>4, <3>1 DEF FillUpi, HasRow
        <4> QED  BY <1>3, <3>1, <4>1 DEF Onboarding, OnboardingTyped, OnboardingStatus, HasRow, InForce
      <3>2. CASE ~(HasRow /\ onboarding.upi = NoUpi)
        <4>1. UNCHANGED <<onboarding, profile>>
          BY <1>1, <2>4, <3>2 DEF FillUpi, HasRow
        <4> QED  BY <1>2, <4>1 DEF OnboardingTyped, HasRow, InForce
      <3> QED  BY <3>1, <3>2
    <2> QED  BY <2>1, <2>2, <2>3, <2>4
  <1> QED  BY <1>1, <1>4, KycEnds DEF RowSteps

\* A row is created and the request goes on, or there is one already and it fails.
LEMMA InsertKeeps ==
    ASSUME IInv, NEW r \in Requests, Insert(r)
    PROVE  IInv'
  <1>1. /\ call[r].pc = "insert" /\ Keeps
        /\ UNCHANGED <<otp, profile, method, verification, ghosts>>
    BY DEF Insert, At
  <1>2. /\ KycInv /\ OnboardingTyped /\ KycTyped /\ VerifiedHasRow
        /\ call \in [Requests -> Records] /\ call[r] \in Records /\ Carries(call[r])
        /\ "kyc" \notin crossed => InForce
    BY <1>1, KycContext
  <1>3. CASE HasRow
    <2>1. Finish(r) /\ UNCHANGED onboarding
      BY <1>3 DEF Insert, HasRow
    <2>2. OnboardingTyped' /\ HasRow' = HasRow /\ ("kyc" \notin crossed => InForce')
      BY <1>1, <1>2, <2>1 DEF OnboardingTyped, HasRow, InForce
    <2> QED  BY <1>1, <2>1, <2>2, KycEnds DEF RowSteps
  <1>4. CASE ~HasRow
    <2> DEFINE d == [call[r] EXCEPT !.pc = call[r].op, !.status = "IN_PROGRESS"]
    <2>1. call[r].op \in {"profile", "vehicle", "bank"}
      BY <1>1, <1>2, OpsAtIs DEF Carries
    <2>2. call' = [call EXCEPT ![r] = d] /\ onboarding' = Onboarding("IN_PROGRESS", NoVehicle, NoUpi)
      BY <1>2, <1>4 DEF Insert, HasRow
    <2>3. /\ d \in Records /\ d.pc = call[r].op /\ d.op = call[r].op /\ d.upi = call[r].upi
          /\ d.status = "IN_PROGRESS"
      BY <1>2, <2>1 DEF Records, Steps, OnboardingStatus
    <2> HIDE DEF d
    <2>4. PICK new \in Records :
              /\ call' = [call EXCEPT ![r] = new] /\ new.pc = call[r].op /\ new.op = call[r].op
              /\ new.upi = call[r].upi /\ new.status = "IN_PROGRESS"
      BY <2>2, <2>3
    <2>5. Carries(new) /\ new.pc \notin LoginClaims \cup MethodClaims
      BY <1>1, <1>2, <2>1, <2>4, OpsAtIs DEF Carries, LoginClaims, MethodClaims
    <2>6. OnboardingTyped' /\ HasRow' /\ InForce'
      BY <2>2 DEF Onboarding, OnboardingTyped, OnboardingStatus, HasRow, InForce
    <2>7. KycTyped' /\ VerifiedHasRow'
      BY <1>1, <1>2, <2>6 DEF KycTyped, VerifiedHasRow, ghosts
    <2>8. KycRow(new)'
      BY <2>1, <2>4 DEF KycRow
    <2>9. "kyc" \notin crossed => (~Happens("Decide") => profile' \in passed' \cup {NoVehicle})
      BY <1>1, <1>2 DEF KycInv, ApprovedWasVerified, ghosts
    <2>10. UNCHANGED <<otp, method, logins>>
      BY <1>1 DEF ghosts
    <2> QED  BY <1>1, <2>4, <2>5, <2>6, <2>7, <2>8, <2>9, <2>10, KycMoves
  <1> QED  BY <1>3, <1>4

\* A step that changes rows of this area and goes on to another.
LEMMA KycGoes ==
    ASSUME IInv, NEW r \in Requests, call[r].pc \in RowSteps, Keeps,
           NEW pc \in {"default", "approve", "reject", "reopen"}, Goto(r, pc),
           call[r].op \in OpsAt(pc), pc = "default" => call[r].upi \in Upis,
           UNCHANGED <<otp, method, logins>>, OnboardingTyped', KycTyped', VerifiedHasRow', HasRow',
           "kyc" \notin crossed =>
               /\ InForce'
               /\ ~Happens("Decide") => /\ profile' \in passed' \cup {NoVehicle}
                                        /\ pc = "approve" => onboarding'.vehicle \in passed'
    PROVE  IInv'
  <1>1. Base
    BY Whole
  <1>2. pc \in Steps
    BY DEF Steps
  <1>3. PICK new \in Records :
            /\ call' = [call EXCEPT ![r] = new] /\ new.pc = pc /\ new.op = call[r].op
            /\ new.upi = call[r].upi
    BY <1>1, <1>2, GotoIs
  <1>4. Carries(new) /\ new.pc \notin LoginClaims \cup MethodClaims
    BY <1>3 DEF Carries, LoginClaims, MethodClaims
  <1>5. "kyc" \notin crossed => KycRow(new)'
    BY <1>3 DEF KycRow, Happens, Keeps
  <1> QED  BY <1>3, <1>4, <1>5, KycMoves

LEMMA WriteBankKeeps ==
    ASSUME IInv, NEW r \in Requests, WriteBank(r)
    PROVE  IInv'
  <1>1. /\ call[r].pc = "bank" /\ Keeps /\ Goto(r, "default")
        /\ onboarding' = Onboarding("IN_PROGRESS", onboarding.vehicle, call[r].upi)
        /\ UNCHANGED <<otp, profile, method, verification, logins, passed>>
    BY DEF WriteBank, At, ghosts
  <1>2. /\ KycInv /\ OnboardingTyped /\ KycTyped /\ VerifiedHasRow /\ Carries(call[r])
    BY <1>1, KycContext DEF RowSteps
  <1>3. call[r].upi \in Upis /\ call[r].op \in OpsAt("default")
    BY <1>1, <1>2, OpsAtIs DEF Carries
  <1>4. OnboardingTyped' /\ HasRow' /\ InForce'
    BY <1>1, <1>2, <1>3 DEF Onboarding, OnboardingTyped, OnboardingStatus, HasRow, InForce
  <1>5. KycTyped' /\ VerifiedHasRow'
    BY <1>1, <1>2, <1>4 DEF KycTyped, VerifiedHasRow
  <1>6. "kyc" \notin crossed => (~Happens("Decide") => profile' \in passed' \cup {NoVehicle})
    BY <1>1, <1>2 DEF KycInv, ApprovedWasVerified
  <1> QED  BY <1>1, <1>3, <1>4, <1>5, <1>6, KycGoes DEF RowSteps

LEMMA VerdictKeeps ==
    ASSUME IInv, NEW r \in Requests, Verdict(r)
    PROVE  IInv'
  <1>1. call[r].pc = "ask" /\ Keeps /\ UNCHANGED <<otp, onboarding, profile, method, logins>>
    BY DEF Verdict, At
  <1>2. PICK k \in Unused, status \in KycStatus \ {"NONE"} :
            /\ verification' = [verification EXCEPT ![k] = status]
            /\ passed' = IF status = "VERIFIED" THEN passed \cup {call[r].vehicle} ELSE passed
            /\ Goto(r, Outcome(status))
    BY DEF Verdict
  <1>3. /\ KycInv /\ OnboardingTyped /\ KycTyped /\ VerifiedHasRow /\ call[r] \in Records
        /\ Carries(call[r]) /\ HasRow
        /\ "kyc" \notin crossed => call[r].vehicle = onboarding.vehicle /\ InForce
    BY <1>1, KycContext DEF RowSteps, KycRow
  <1>4. PICK pc \in {"approve", "reject", "reopen"} :
            Goto(r, pc) /\ (pc = "approve" => status = "VERIFIED")
    <2>1. /\ Outcome(status) \in {"approve", "reject", "reopen"}
          /\ Outcome(status) = "approve" => status = "VERIFIED"
      BY DEF Outcome
    <2> HIDE DEF Outcome
    <2> QED  BY <1>2, <2>1
  <1>5. call[r].op \in OpsAt(pc)
    BY <1>1, <1>3, <1>4, OpsAtIs DEF Carries
  <1>6. OnboardingTyped' /\ HasRow' /\ ("kyc" \notin crossed => InForce')
    BY <1>1, <1>3 DEF OnboardingTyped, HasRow, InForce
  <1>7. KycTyped' /\ VerifiedHasRow'
    BY <1>1, <1>2, <1>3, <1>6 DEF KycTyped, VerifiedHasRow, Records
  <1>8. "kyc" \notin crossed /\ ~Happens("Decide") =>
            /\ profile' \in passed' \cup {NoVehicle}
            /\ pc = "approve" => onboarding'.vehicle \in passed'
    BY <1>1, <1>2, <1>3, <1>4 DEF KycInv, ApprovedWasVerified
  <1> QED  BY <1>1, <1>4, <1>5, <1>6, <1>7, <1>8, KycGoes DEF RowSteps

LEMMA ApproveKeeps ==
    ASSUME IInv, NEW r \in Requests, Approve(r)
    PROVE  IInv'
  <1>1. /\ call[r].pc = "approve" /\ Keeps
        /\ onboarding' = [onboarding EXCEPT !.status = "APPROVED"]
        /\ UNCHANGED <<otp, profile, method, verification, logins, passed>>
    BY DEF Approve, At, ghosts
  <1>2. /\ KycInv /\ OnboardingTyped /\ KycTyped /\ VerifiedHasRow
        /\ call \in [Requests -> Records] /\ call[r] \in Records /\ Carries(call[r]) /\ HasRow
        /\ "kyc" \notin crossed /\ ~Happens("Decide") => onboarding.vehicle \in passed
    BY <1>1, KycContext DEF RowSteps, KycRow
  <1>3. /\ onboarding'.status = "APPROVED" /\ onboarding'.vehicle = onboarding.vehicle
        /\ OnboardingTyped' /\ HasRow'
    BY <1>1, <1>2 DEF OnboardingTyped, OnboardingStatus, HasRow
  <1>4. KycTyped' /\ VerifiedHasRow'
    BY <1>1, <1>2, <1>3 DEF KycTyped, VerifiedHasRow
  <1>5. "kyc" \notin crossed => (~Happens("Decide") => profile' \in passed' \cup {NoVehicle})
    BY <1>1, <1>2 DEF KycInv, ApprovedWasVerified
  <1>6. PICK new \in Records :
            /\ call' = [call EXCEPT ![r] = new]
            /\ \/ new = Idle /\ onboarding.vehicle = NoVehicle
               \/ /\ new.op = call[r].op /\ new.vehicle = onboarding.vehicle
                  /\ new.upi = onboarding.upi
                  /\ \/ new.pc = "enlist"
                     \/ new.pc = "default" /\ onboarding.vehicle = NoVehicle /\ new.upi \in Upis
    <2>1. CASE onboarding.vehicle = NoVehicle /\ onboarding.upi = NoUpi
      BY <2>1, IdleIs DEF Approve, Finish
    <2>2. CASE ~(onboarding.vehicle = NoVehicle /\ onboarding.upi = NoUpi)
      <3> DEFINE d == [call[r] EXCEPT !.vehicle = onboarding.vehicle, !.upi = onboarding.upi,
                           !.pc = IF onboarding.vehicle = NoVehicle THEN "default" ELSE "enlist"]
      <3>1. call' = [call EXCEPT ![r] = d]
        BY <1>2, <2>2 DEF Approve
      <3>2. /\ d \in Records /\ d.op = call[r].op /\ d.vehicle = onboarding.vehicle
            /\ d.upi = onboarding.upi
            /\ d.pc = IF onboarding.vehicle = NoVehicle THEN "default" ELSE "enlist"
        BY <1>2 DEF Records, OnboardingTyped, Steps
      <3>3. onboarding.vehicle = NoVehicle => onboarding.upi \in Upis
        BY <1>2, <2>2 DEF OnboardingTyped
      <3> HIDE DEF d
      <3> QED  BY <3>1, <3>2, <3>3
    <2> QED  BY <2>1, <2>2
  <1>7. Carries(new) /\ new.pc \notin LoginClaims \cup MethodClaims
    BY <1>1, <1>2, <1>6, IdleIs, OpsAtIs DEF Carries, LoginClaims, MethodClaims
  <1>8. new.pc = "idle" \/ new.op = call[r].op
    BY <1>6, IdleIs
  <1>9. "kyc" \notin crossed => KycRow(new)' /\ (new.pc # "enlist" => InForce')
    <2>1. new.pc # "enlist" => InForce'
      BY <1>3, <1>6 DEF InForce
    <2>2. "kyc" \notin crossed => KycRow(new)'
      BY <1>1, <1>2, <1>3, <1>6, IdleIs DEF KycRow, Happens, Keeps
    <2> QED  BY <2>1, <2>2
  <1>10. UNCHANGED <<otp, method, logins>> /\ call[r].pc \in RowSteps
    BY <1>1 DEF RowSteps
  <1> QED  BY <1>1, <1>3, <1>4, <1>5, <1>6, <1>7, <1>8, <1>9, <1>10, KycMoves

LEMMA EnlistKeeps ==
    ASSUME IInv, NEW r \in Requests, Enlist(r)
    PROVE  IInv'
  <1>1. /\ call[r].pc = "enlist" /\ Keeps /\ profile' = call[r].vehicle
        /\ UNCHANGED <<otp, onboarding, method, verification, logins, passed>>
    BY DEF Enlist, At, ghosts
  <1>2. /\ OnboardingTyped /\ KycTyped /\ VerifiedHasRow /\ call[r] \in Records
        /\ Carries(call[r]) /\ HasRow
        /\ "kyc" \notin crossed => call[r].vehicle = onboarding.vehicle
        /\ "kyc" \notin crossed /\ ~Happens("Decide") => onboarding.vehicle \in passed
    BY <1>1, KycContext DEF RowSteps, KycRow
  <1>3. OnboardingTyped' /\ HasRow' /\ KycTyped' /\ VerifiedHasRow'
    BY <1>1, <1>2 DEF OnboardingTyped, HasRow, KycTyped, VerifiedHasRow, Records
  <1>4. "kyc" \notin crossed =>
            /\ InForce'
            /\ ~Happens("Decide") => profile' \in passed' \cup {NoVehicle}
    BY <1>1, <1>2 DEF InForce
  <1>5. CASE call[r].upi = NoUpi
    <2>1. call' = [call EXCEPT ![r] = Idle]
      BY <1>5 DEF Enlist, Finish
    <2>2. KycRow(Idle)'
      BY IdleIs DEF KycRow
    <2>3. /\ Idle \in Records /\ Carries(Idle) /\ Idle.pc = "idle" /\ call[r].pc \in RowSteps
          /\ Idle.pc \notin LoginClaims \cup MethodClaims /\ UNCHANGED <<otp, method, logins>>
      BY <1>1, IdleIs DEF LoginClaims, MethodClaims, RowSteps
    <2> QED  BY <1>1, <1>3, <1>4, <2>1, <2>2, <2>3, KycMoves
  <1>6. CASE call[r].upi # NoUpi
    <2>1. Goto(r, "default") /\ call[r].upi \in Upis
      BY <1>2, <1>6 DEF Enlist, Records
    <2>2. call[r].op \in OpsAt("default") /\ call[r].pc \in RowSteps
      BY <1>1, <1>2, OpsAtIs DEF Carries, RowSteps
    <2> QED  BY <1>1, <1>3, <1>4, <2>1, <2>2, KycGoes
  <1> QED  BY <1>5, <1>6

-------------------------------------------------------------------------------
(* Steps outside the areas, and the theorems. *)

\* A row that appears was relied on by nobody.
LEMMA RowAppears ==
    ASSUME Base, KycInv, ~HasRow, NEW status \in {"NOT_STARTED", "IN_PROGRESS"},
           onboarding' = Onboarding(status, NoVehicle, NoUpi),
           UNCHANGED <<otp, profile, method, verification, ghosts, crossed, mix>>,
           \A q \in Requests : call'[q].pc \notin RowSteps
    PROVE  Typed' /\ HasRow' /\ KycInv'
  <1>1. Typed
    BY BaseIs
  <1>2. onboarding'.status = status /\ onboarding'.vehicle = NoVehicle /\ onboarding'.upi = NoUpi
    BY DEF Onboarding
  <1>3. OnboardingTyped' /\ HasRow' /\ InForce'
    BY <1>2 DEF Onboarding, OnboardingTyped, OnboardingStatus, HasRow, InForce
  <1>4. Typed'
    BY <1>1, <1>3 DEF Typed, OtpTyped, MethodTyped, KycTyped, VerifiedHasRow, Active, ghosts
  <1>5. ApprovedWasVerified'
    BY DEF KycInv, ApprovedWasVerified, Happens, ghosts
  <1>6. \A q \in Requests : KycRow(call[q])'
    BY DEF KycRow, RowSteps
  <1> QED  BY <1>3, <1>4, <1>5, <1>6 DEF KycInv, KycCourse

LEMMA SeedKeeps ==
    ASSUME IInv, NEW r \in Requests, Seed(r)
    PROVE  IInv'
  <1>1. /\ call[r].pc = "seed" /\ Keeps /\ Finish(r)
        /\ UNCHANGED <<otp, profile, method, verification, ghosts>>
    BY DEF Seed, At
  <1>2. /\ Base /\ LoginInv /\ KycInv /\ OtpTyped
        /\ \A q \in Requests : call[q].pc \in RowSteps => HasRow
    BY Whole, BaseIs DEF Typed
  <1>3. call' = [call EXCEPT ![r] = Idle]
    BY <1>1 DEF Finish
  <1>4. /\ Idle \in Records /\ Carries(Idle) /\ Idle.pc = "idle"
        /\ Idle.pc \notin LoginClaims \cup MethodClaims \cup KycClaims \cup RowSteps
    BY IdleIs DEF LoginClaims, MethodClaims, KycClaims, RowSteps
  <1>5. Counted(r, Idle) /\ crossed' = crossed /\ crossed \subseteq crossed' /\ mix' = mix
    BY <1>1, <1>2, <1>4, KeepsIs
  <1>6. CASE HasRow
    <2>1. UNCHANGED <<onboarding, logins, passed>>
      BY <1>1, <1>6 DEF Seed, HasRow, ghosts
    <2>2. LoginInv' /\ OtpTyped'
      BY <1>1, <1>2, <1>3, <1>4, <1>5, <2>1, LoginFrame DEF OtpTyped
    <2> QED  BY <1>1, <1>3, <1>4, <1>5, <2>1, <2>2, OnlyLogin
  <1>7. CASE ~HasRow
    <2>1. onboarding' = Onboarding("NOT_STARTED", NoVehicle, NoUpi)
      BY <1>7 DEF Seed, HasRow
    <2>2. \A q \in Requests : call'[q].pc \notin RowSteps
      BY <1>2, <1>3, <1>4, <1>7, NewIs
    <2>3. Typed' /\ HasRow' /\ KycInv'
      BY <1>1, <1>2, <1>5, <1>7, <2>1, <2>2, RowAppears
    <2>4. OnboardingTyped' /\ KycTyped' /\ VerifiedHasRow' /\ UNCHANGED <<otp, method, logins>>
      BY <1>1, <2>3 DEF Typed, ghosts
    <2> QED  BY <1>3, <1>4, <1>5, <2>3, <2>4, OnlyKyc
  <1> QED  BY <1>6, <1>7

\* Requests and crossed stand still.
LEMMA Unmoved ==
    ASSUME IInv, UNCHANGED <<otp, method, logins, call, crossed>>
    PROVE  LoginInv' /\ MethodInv' /\ (Typed' /\ (HasRow => HasRow') => Base')
  <1>1. LoginInv /\ MethodInv /\ Base
    BY Whole
  <1>2. LoginInv'
    BY <1>1 DEF LoginInv, LoginCourse, LoginRow, CodeLogsInOnce, Standing
  <1>3. MethodInv'
    BY <1>1 DEF MethodInv, MethodCourse, MethodRow, OnePreferred, Active
  <1>4. ASSUME Typed', HasRow => HasRow' PROVE Base'
    <2>1. /\ call \in [Requests -> Records] /\ crossed \subseteq Areas /\ Sole
          /\ \A r \in Requests : Carries(call[r]) /\ (call[r].pc \in RowSteps => HasRow)
      BY <1>1, BaseIs
    <2>2. Sole'
      BY <2>1 DEF Sole
    <2> QED  BY <1>4, <2>1, <2>2, BaseThen
  <1> QED  BY <1>2, <1>3, <1>4

LEMMA MeKeeps ==
    ASSUME IInv, Me
    PROVE  IInv'
  <1>1. /\ ~HasRow /\ onboarding' = Onboarding("IN_PROGRESS", NoVehicle, NoUpi)
        /\ UNCHANGED <<otp, profile, method, verification, call, ghosts, crossed, mix>>
    BY DEF Me, HasRow
  <1>2. Base /\ KycInv /\ \A q \in Requests : call[q].pc \in RowSteps => HasRow
    BY Whole, BaseIs
  <1>3. \A q \in Requests : call'[q].pc \notin RowSteps
    BY <1>1, <1>2
  <1>4. Typed' /\ HasRow' /\ KycInv'
    BY <1>1, <1>2, <1>3, RowAppears
  <1>5. LoginInv' /\ MethodInv' /\ Base'
    BY <1>1, <1>4, Unmoved DEF ghosts
  <1> QED  BY <1>4, <1>5, Whole, PTL

LEMMA StutterKeeps ==
    ASSUME IInv, UNCHANGED vars
    PROVE  IInv'
  <1>1. UNCHANGED <<otp, onboarding, profile, method, verification, call, logins, passed, crossed, mix>>
    BY DEF vars, rows, ghosts
  <1>2. Typed /\ KycInv
    BY Whole, BaseIs
  <1>3. HasRow' = HasRow
    BY <1>1 DEF HasRow
  <1>4. Typed'
    BY <1>1, <1>2, <1>3 DEF Typed, OtpTyped, OnboardingTyped, MethodTyped, KycTyped, VerifiedHasRow, Active
  <1>5. KycInv'
    BY <1>1, <1>2 DEF KycInv, KycCourse, KycRow, ApprovedWasVerified, InForce, At, Happens
  <1>6. LoginInv' /\ MethodInv' /\ Base'
    BY <1>1, <1>3, <1>4, Unmoved
  <1> QED  BY <1>5, <1>6, Whole, PTL

LEMMA FailKeeps ==
    ASSUME IInv, NEW r \in Requests, Fail(r)
    PROVE  IInv'
  <1>1. /\ call[r].pc # "idle" /\ Finish(r)
        /\ crossed' = crossed \cup (Touches(call[r].op) \cap {"kyc"})
        /\ UNCHANGED <<otp, onboarding, profile, method, verification, logins, passed, mix>>
    BY DEF Fail, At, rows, ghosts
  <1>2. Base /\ LoginInv /\ OtpTyped /\ Carries(call[r]) /\ crossed \subseteq Areas
    BY Whole, BaseIs DEF Typed
  <1>3. call' = [call EXCEPT ![r] = Idle]
    BY <1>1 DEF Finish
  <1>4. /\ Idle \in Records /\ Carries(Idle)
        /\ Idle.pc \notin LoginClaims \cup MethodClaims \cup KycClaims \cup RowSteps
    BY IdleIs DEF LoginClaims, MethodClaims, KycClaims, RowSteps
  <1>5. Counted(r, Idle) /\ crossed \subseteq crossed'
    BY <1>1, <1>2, IdleIs DEF Counted, Areas
  <1>6. call[r].pc = "enlist" => "kyc" \in crossed'
    BY <1>1, <1>2, ClaimsOccupy DEF KycClaims, Occupies
  <1>7. LoginInv' /\ OtpTyped'
    BY <1>1, <1>2, <1>3, <1>4, <1>5, LoginFrame DEF OtpTyped
  <1> QED  BY <1>1, <1>3, <1>4, <1>5, <1>6, <1>7, OnlyLogin

LEMMA InitInv == Init => IInv
  <1> SUFFICES ASSUME Init PROVE IInv
    OBVIOUS
  <1>1. /\ \A r \in Requests : call[r] = Idle
        /\ call \in [Requests -> Records]
    BY IdleIs DEF Init
  <1>2. Active = {} /\ ~HasRow /\ \A k \in Codes : otp[k] = "NONE" /\ logins[k] = 0
    BY DEF Init, Active, Method, HasRow, Onboarding
  <1>3. Typed
    <2>1. OtpTyped /\ VerifiedHasRow
      BY DEF Init, OtpTyped, OtpStatus, VerifiedHasRow
    <2>2. OnboardingTyped
      BY DEF Init, Onboarding, OnboardingTyped, OnboardingStatus
    <2>3. MethodTyped
      BY <1>2 DEF Init, Method, MethodTyped
    <2>4. KycTyped
      BY DEF Init, KycTyped, KycStatus
    <2> QED  BY <2>1, <2>2, <2>3, <2>4 DEF Typed
  <1>4. Base
    <2>1. Sole
      BY <1>1, IdleIs DEF Sole, Occupies
    <2>2. \A r \in Requests : Carries(call[r]) /\ call[r].pc \notin RowSteps
      BY <1>1, IdleIs DEF RowSteps
    <2> QED  BY <1>1, <1>3, <2>1, <2>2, BaseIs DEF Init
  <1>5. LoginInv
    BY <1>1, <1>2, IdleIs DEF LoginInv, LoginCourse, LoginRow, CodeLogsInOnce, Standing
  <1>6. MethodInv
    <2>1. \A m \in Methods : ~method[m].preferred
      BY DEF Init, Method
    <2> QED  BY <1>1, <1>2, <2>1, IdleIs DEF MethodInv, MethodCourse, MethodRow, OnePreferred
  <1>7. KycInv
    <2>1. InForce /\ profile = NoVehicle
      BY DEF Init, Onboarding, InForce
    <2> QED  BY <1>1, <2>1, IdleIs DEF KycInv, KycCourse, KycRow, ApprovedWasVerified
  <1> QED  BY <1>4, <1>5, <1>6, <1>7, Whole

LEMMA StepInv == IInv /\ [Next]_vars => IInv'
  <1> SUFFICES ASSUME IInv, [Next]_vars PROVE IInv'
    OBVIOUS
  <1>1. ASSUME NEW r \in Requests, LoggingIn(r) PROVE IInv'
    BY <1>1, RequestOtpKeeps, VerifyOtpKeeps, NewCodeKeeps, ExpireKeeps, EnterKeeps, SeedKeeps
       DEF LoggingIn
  <1>2. ASSUME NEW r \in Requests, Saving(r) PROVE IInv'
    BY <1>2, DataCallsKeep, InsertKeeps, WritesKeep, WriteBankKeeps DEF Saving
  <1>3. ASSUME NEW r \in Requests, Paying(r) PROVE IInv'
    BY <1>3, MethodCallsKeep, DefaultKeeps, UnpreferKeeps, AddKeeps, WritesKeep, PreferKeeps,
       RemoveKeeps DEF Paying
  <1>4. ASSUME NEW r \in Requests, Verifying(r) PROVE IInv'
    BY <1>4, KycCallsKeep, VerdictKeeps, ApproveKeeps, EnlistKeeps, WritesKeep DEF Verifying
  <1> QED
    BY <1>1, <1>2, <1>3, <1>4, MeKeeps, FailKeeps, StutterKeeps DEF Next

\* Every row and request stays within its type, and an active payment method has an id.
THEOREM EnrolmentTypes == Spec => []TypeOK
  <1>1. IInv => TypeOK
    BY DEF IInv
  <1> QED  BY <1>1, InitInv, StepInv, PTL DEF Spec

\* However requests die half way: while logins do not overlap, AuthService.verifyOtp issues
\* one session for a code at most, and only the last code sent can be redeemed.
THEOREM CodesLogInOnce == Spec => []CodeLogsInOnce
  <1>1. IInv => CodeLogsInOnce
    BY DEF IInv
  <1> QED  BY <1>1, InitInv, StepInv, PTL DEF Spec

\* However requests die half way: while changes to them do not overlap, the five ways in which
\* payment methods change leave a driver who has some with exactly one preferred.
THEOREM OneIsPreferred == Spec => []OnePreferred
  <1>1. IInv => OnePreferred
    BY DEF IInv
  <1> QED  BY <1>1, InitInv, StepInv, PTL DEF Spec

\* While nothing overlaps or dies, an approval that stands is of the data the driver works
\* under: DriverOnboardingService takes it back with every change.
THEOREM ApprovalInForce == Spec => []ApprovedIsInForce
  <1>1. IInv => ApprovedIsInForce
    BY DEF IInv
  <1> QED  BY <1>1, InitInv, StepInv, PTL DEF Spec

\* While nothing overlaps or dies and no admin decides, KycService puts a driver to work
\* under data the provider has verified only.
THEOREM ApprovalVerified == Spec => []ApprovedWasVerified
  <1>1. IInv => ApprovedWasVerified
    BY DEF IInv
  <1> QED  BY <1>1, InitInv, StepInv, PTL DEF Spec
===============================================================================
