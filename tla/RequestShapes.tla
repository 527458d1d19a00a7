----------------------------- MODULE RequestShapes -----------------------------
(***************************************************************************)
(* What a request must look like, asked three times: by the page              *)
(* (frontend/src/lib/schemas.ts and the checks of the loan forms), by the      *)
(* server (backend/src/api/schemas, api/middleware/validate.ts) and by what    *)
(* builds the transaction (backend/src/contracts and the SDK).                *)
(*                                                                         *)
(* A value is known by the class that the checks tell apart; "padded" is a     *)
(* good one with blanks around it.  A rule says whether blanks are trimmed     *)
(* and which classes are taken then.  No page calls lib/schemas.ts yet: its    *)
(* rules stand for a caller that parses first.                               *)
(***************************************************************************)
EXTENDS FiniteSets, Functions

CONSTANTS MaxOdd    \* bound: fields of a request whose value is not an ordinary one

VARIABLES
    kind,      \* what is asked for
    given,     \* the values the caller had, by field
    value,     \* the values as parsed so far
    at,        \* "asked", "sent", "accepted", "built" or "refused"
    by         \* the layer that refused

vars == <<kind, given, value, at, by>>

-----------------------------------------------------------------------------
(* Values *)

Keys == {"good", "padded", "badChecksum", "short"}

\* As a loan's borrower, also the account that lends.
Borrowers == Keys \cup {"lender"}
Codes == {"good", "padded", "XLM", "thirteen", "symbol"}
Amounts == {"good", "padded", "leadingZero", "zero", "eightDecimals", "tooLarge"}
Texts == {"good", "padded", "empty", "long"}

\* wide: 28 characters in more than 28 bytes; long: more characters than that.
Memos == {"absent", "empty", "good", "padded", "wide", "long", "hash", "badHash"}
Urls == {"good", "http", "malformed", "long"}
Roles == {"good", "other"}
Rates == {"good", "negative", "high"}
Absent == {"absent"}

Trimmed(v) == IF v = "padded" THEN "good" ELSE v
Rule(trims, takes) == [trims |-> trims, takes |-> takes]
Optional(rule) == [rule EXCEPT !.takes = @ \cup Absent]

\* Any object will do.
Settings == Optional(Rule(FALSE, {"good"}))

-----------------------------------------------------------------------------
(* The page *)

\* stellarPublicKeySchema does not look at the checksum.
FormKey == Rule(TRUE, {"good", "badChecksum"})
FormCode == Rule(TRUE, {"good", "XLM"})
FormAmount == Rule(TRUE, {"good", "leadingZero", "tooLarge"})

\* memoSchema: bytes are counted.
FormMemo == Rule(TRUE, {"absent", "empty", "good", "hash"})
FormName == Rule(TRUE, {"good"})
FormText == Optional(Rule(TRUE, {"good", "empty"}))
FormRole == Rule(FALSE, {"good"})
FormUrl == Rule(FALSE, {"good"})
FormBorrower == Rule(TRUE, {"good", "badChecksum", "lender"})

\* CreateLoanForm trims the borrower as it is typed, and nobody borrows of himself there.
TypedBorrower == Rule(TRUE, {"good", "badChecksum"})

\* The amounts and the rate of CreateLoanForm and LoanActions are not trimmed.
TypedAmount == Rule(FALSE, {"good", "leadingZero", "tooLarge"})
TypedRate == Optional(Rule(FALSE, {"good"}))

FormPayment ==
    [sender |-> FormKey, destination |-> FormKey, code |-> FormCode,
     issuer |-> Optional(FormKey), amount |-> FormAmount, memo |-> FormMemo]
FormTrustline ==
    [account |-> FormKey, code |-> FormCode, issuer |-> FormKey, limit |-> Optional(FormAmount)]
FormCommunity ==
    [name |-> FormName, description |-> FormText, key |-> FormKey, code |-> FormCode,
     issuer |-> FormKey]
FormUpdate == [name |-> Optional(FormName), description |-> FormText, settings |-> Settings]
FormMember == [address |-> FormKey, role |-> Optional(FormRole)]
FormSetRole == [role |-> FormRole]
FormAvatar == [url |-> FormUrl]
FormLoan ==
    [borrower |-> FormBorrower, lender |-> FormKey, amount |-> FormAmount, code |-> FormCode,
     issuer |-> Optional(FormKey), purpose |-> FormText]

\* CreateLoanForm asks nothing of the connected account and the community's asset, nor of
\* the purpose, which it trims.
Unasked == Rule(FALSE, Keys \cup Codes \cup Absent)
OriginateForm ==
    [borrower |-> TypedBorrower, lender |-> Unasked, amount |-> TypedAmount, code |-> Unasked,
     issuer |-> Unasked, purpose |-> Optional(Rule(TRUE, Texts)), rate |-> TypedRate]

\* What is outstanding is compared with by the handler as well (LoanRequests).
RepayForm == [amount |-> TypedAmount]

Form ==
    [payment |-> FormPayment, trustline |-> FormTrustline, community |-> FormCommunity,
     update |-> FormUpdate, member |-> FormMember, role |-> FormSetRole, avatar |-> FormAvatar,
     loan |-> FormLoan, originate |-> OriginateForm, repay |-> RepayForm]

-----------------------------------------------------------------------------
(* The server *)

ServerKey == Rule(TRUE, {"good"})
ServerCode == Rule(TRUE, {"good", "XLM"})
ServerAmount == Rule(TRUE, {"good", "tooLarge"})

\* Slip: the limit of a memo is counted in characters.
MemoByCharacters == Rule(TRUE, {"absent", "empty", "good", "wide", "hash"})
ServerMemo == Rule(TRUE, {"absent", "empty", "good", "hash"})
ServerName == Rule(TRUE, {"good"})
ServerText == Optional(Rule(TRUE, {"good", "empty"}))
ServerRole == Rule(FALSE, {"good"})

\* The schema of loans takes an amount with leading zeros, and any two accounts.
ServerBorrower == Rule(TRUE, {"good", "lender"})
LoanAmount == Rule(TRUE, {"good", "leadingZero", "tooLarge"})
LoanRate == Optional(Rule(FALSE, {"good"}))

\* Those of tokens do not trim keys and codes, look at the shape of a key only, and count
\* the characters of a memo.
TokenKey == Rule(FALSE, {"good", "badChecksum"})
TokenCode == Rule(FALSE, {"good", "XLM"})
TokenMemo == Rule(TRUE, {"absent", "empty", "good", "wide"})

ServerPayment ==
    [sender |-> ServerKey, destination |-> ServerKey, code |-> ServerCode,
     issuer |-> Optional(ServerKey), amount |-> ServerAmount, memo |-> ServerMemo]
ServerTrustline ==
    [account |-> ServerKey, code |-> ServerCode, issuer |-> ServerKey,
     limit |-> Optional(ServerAmount)]
TokenTrustline ==
    [account |-> TokenKey, code |-> TokenCode, issuer |-> TokenKey,
     limit |-> Optional(ServerAmount)]
TokenIssue ==
    [sender |-> TokenKey, destination |-> TokenKey, code |-> TokenCode, amount |-> ServerAmount,
     memo |-> TokenMemo]
TokenBurn ==
    [sender |-> TokenKey, code |-> TokenCode, issuer |-> TokenKey, amount |-> ServerAmount]

\* The issuer is compared with the community's, whose key was checked.
TokenAirdrop ==
    [sender |-> Rule(FALSE, {"good"}), amount |-> ServerAmount, memo |-> TokenMemo]
ServerCommunity ==
    [name |-> ServerName, description |-> ServerText, key |-> ServerKey, code |-> ServerCode,
     issuer |-> ServerKey]
ServerUpdate ==
    [name |-> Optional(ServerName), description |-> ServerText, settings |-> Settings]
ServerMember == [address |-> ServerKey, role |-> Optional(ServerRole)]
ServerSetRole == [role |-> ServerRole]
ServerAvatar == [url |-> Rule(TRUE, {"good", "http"})]
ServerLoan ==
    [borrower |-> ServerBorrower, lender |-> ServerKey, amount |-> LoanAmount, code |-> ServerCode,
     issuer |-> Optional(ServerKey), purpose |-> ServerText]
ServerOriginate ==
    [borrower |-> ServerBorrower, lender |-> ServerKey, amount |-> LoanAmount, code |-> ServerCode,
     issuer |-> Optional(ServerKey), purpose |-> ServerText, rate |-> LoanRate]
ServerRepay == [amount |-> LoanAmount]

Server ==
    [payment |-> ServerPayment, trustline |-> ServerTrustline, tokenTrustline |-> TokenTrustline,
     issue |-> TokenIssue, burn |-> TokenBurn, airdrop |-> TokenAirdrop,
     community |-> ServerCommunity, update |-> ServerUpdate, member |-> ServerMember,
     role |-> ServerSetRole, avatar |-> ServerAvatar, loan |-> ServerLoan,
     originate |-> ServerOriginate, repay |-> ServerRepay]

-----------------------------------------------------------------------------
(* What builds a transaction: nothing is trimmed *)

BuiltKey == Rule(FALSE, {"good"})
BuiltCode == Rule(FALSE, {"good", "XLM"})

\* The SDK refuses what does not fit int64; the batch does not take leading zeros.
BuiltAmount == Rule(FALSE, {"good", "leadingZero"})
BatchAmount == Rule(FALSE, {"good"})

\* buildMemo
BuiltMemo == Rule(FALSE, {"absent", "empty", "good", "hash"})

BuiltPayment ==
    [sender |-> BuiltKey, destination |-> BuiltKey, code |-> BuiltCode,
     issuer |-> Optional(BuiltKey), amount |-> BuiltAmount, memo |-> BuiltMemo]
BuiltTrustline ==
    [account |-> BuiltKey, code |-> BuiltCode, issuer |-> BuiltKey,
     limit |-> Optional(BuiltAmount)]
BuiltBatch == [sender |-> BuiltKey, amount |-> BatchAmount, memo |-> BuiltMemo]

\* What issues and what burns is a payment, of which the code knows the issuer or the
\* destination.
Builder ==
    [payment |-> BuiltPayment, issue |-> BuiltPayment, burn |-> BuiltPayment,
     trustline |-> BuiltTrustline, tokenTrustline |-> BuiltTrustline, airdrop |-> BuiltBatch]

-----------------------------------------------------------------------------
(* A request *)

\* What more than one field decides: an asset other than XLM needs its issuer, an update
\* changes something.
Together(v) ==
    /\ kind = "payment" => v.code = "XLM" \/ v.issuer # "absent"
    /\ kind = "update" => \E f \in DOMAIN v : v[f] # "absent"

\* safeParse
Parsed(rules, v) == [f \in DOMAIN v |-> IF rules[f].trims THEN Trimmed(v[f]) ELSE v[f]]
Passes(rules, v) ==
    LET w == Parsed(rules, v)
    IN  (\A f \in DOMAIN w : w[f] \in rules[f].takes) /\ Together(w)

\* The values a field may have been given.
ValuesOf(field) ==
    CASE field \in {"sender", "destination", "account", "key", "address", "lender"} -> Keys
      [] field = "borrower" -> Borrowers
      [] field = "issuer" -> Keys \cup Absent
      [] field = "code" -> Codes
      [] field = "amount" -> Amounts
      [] field = "limit" -> Amounts \cup Absent
      [] field = "memo" -> Memos
      [] field \in {"name", "description", "purpose"} -> Texts \cup Absent
      [] field = "settings" -> {"good"} \cup Absent
      [] field = "url" -> Urls
      [] field = "role" -> Roles \cup Absent
      [] field = "rate" -> Rates \cup Absent

\* Requests with at most MaxOdd values that are not good.
Given(k) ==
    LET fields == DOMAIN Server[k]
        odd == {s \in SUBSET fields : Cardinality(s) \in 0..MaxOdd}
        choices(s) == {c \in [s -> UNION {ValuesOf(f) : f \in s}] : \A f \in s : c[f] \in ValuesOf(f)}
    IN  UNION {{[f \in fields |-> IF f \in s THEN c[f] ELSE "good"] : c \in choices(s)} : s \in odd}

Init ==
    /\ kind \in DOMAIN Server
    /\ given \in Given(kind)
    /\ value = given
    /\ at = "asked"
    /\ by = "nobody"

Layer(name, rules, next) ==
    /\ IF Passes(rules, value) THEN at' = next /\ value' = Parsed(rules, value) /\ UNCHANGED by
       ELSE at' = "refused" /\ by' = name /\ UNCHANGED value
    /\ UNCHANGED <<kind, given>>

\* parseWithFieldErrors, validationError, amountValid
ParseInForm ==
    /\ at = "asked" /\ kind \in DOMAIN Form
    /\ Layer("form", Form[kind], "sent")

\* A caller who does not ask the form, of which there may be none.
SendAsIs ==
    /\ at = "asked"
    /\ at' = "sent"
    /\ UNCHANGED <<kind, given, value, by>>

\* validateBody
ParseBody ==
    /\ at = "sent"
    /\ Layer("server", Server[kind], "accepted")

Build ==
    /\ at = "accepted" /\ kind \in DOMAIN Builder
    /\ Layer("builder", Builder[kind], "built")

Next == ParseInForm \/ SendAsIs \/ ParseBody \/ Build

Spec == Init /\ [][Next]_vars

-----------------------------------------------------------------------------
(* Properties *)

\* The page's "faster first opinion" (schemas.ts:8) is never the stricter one: it refuses
\* nothing the server would take, apart from an avatar without https, blanks around an amount
\* typed into a loan form and a loan of somebody to himself; and parsing twice changes nothing.  What the server
\* takes can be built: only an amount beyond int64 comes that far, and on the token routes
\* a memo of too many bytes and a key with a wrong checksum.
LayersAgree ==
    /\ by = "form" =>
          \/ ~Passes(Server[kind], given)
          \/ kind = "avatar" /\ given.url = "http"
          \/ kind \in {"originate", "repay"} /\ given.amount = "padded"
          \/ kind = "originate" /\ given.borrower = "lender"
    /\ at \in {"accepted", "built"} => value = Parsed(Server[kind], given)
    /\ by = "builder" =>
          \/ "tooLarge" \in Range(value)
          \/ kind \in {"issue", "airdrop"} /\ value.memo = "wide"
          \/ kind \in {"issue", "burn", "tokenTrustline"} /\ "badChecksum" \in Range(value)

=============================================================================
