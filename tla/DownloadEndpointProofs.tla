----------------------- MODULE DownloadEndpointProofs -----------------------
(***************************************************************************)
(* Theorems about DownloadEndpoint, for any number of tokens and requests, *)
(* any sizes, cap and TTL, and however long the clock runs.                *)
(***************************************************************************)
EXTENDS DownloadEndpoint, FiniteSetTheorems, TLAPS

GetRecords ==
  [pc : {"waiting", "serving", "returned", "done"},
   token : Tokens \cup {"none"}, sent : Nat, left : Nat, wrote : BOOLEAN,
   status : {"none", "200", "404", "413", "500"}, err : Errors \cup {"none"},
   end : {"open", "clean", "cut"}]

Files == [length : Sizes, size : Sizes \cup {0}]

FileType == DOMAIN file \subseteq Tokens /\ file \in [DOMAIN file -> Files]

TokenType ==
  /\ DOMAIN tokens \subseteq DOMAIN file
  /\ tokens \in [DOMAIN tokens -> [expires : Nat, used : BOOLEAN]]

(* A token that some GET has claimed was minted, and is used for as long   *)
(* as it stays registered; nobody else has claimed it.                     *)
Claimed ==
  /\ \A r \in Gets : get[r].token # "none" =>
       /\ get[r].token \in DOMAIN file
       /\ get[r].token \in DOMAIN tokens => tokens[get[r].token].used
  /\ \A r, s \in Gets : get[r].token = get[s].token /\ get[r].token # "none"
       => r = s
  /\ \A r \in Gets : get[r].pc \in {"serving", "returned"}
                       => get[r].token # "none"

(* What has been sent, what is left, and what the client has been told.    *)
Progress(g) ==
  /\ g.pc = "waiting" => g = Waiting
  /\ g.pc = "serving" => g.err = "none"
  /\ g.pc \in {"serving", "returned"} =>
       /\ g.sent + g.left = file[g.token].length
       /\ g.wrote => g.status = "200"
       /\ g.err = "none" => g.end = "open"
       /\ g.pc = "returned" /\ g.err = "none" => g.left = 0
  /\ g.pc = "done" /\ g.token # "none" => AnswersItsClient(g)

DownloadInv ==
  /\ clock \in Nat /\ FileType /\ TokenType
  /\ released \in [Tokens -> Nat]
  /\ get \in [Gets -> GetRecords]
  /\ Claimed
  /\ \A r \in Gets : Progress(get[r])
  /\ ResourceReleased

-----------------------------------------------------------------------------

LEMMA DownloadInit == Init => DownloadInv
<1> SUFFICES ASSUME Init
             PROVE  DownloadInv
  OBVIOUS
<1>1. /\ clock = 0 /\ file = <<>> /\ tokens = <<>>
      /\ released = [t \in Tokens |-> 0] /\ get = [r \in Gets |-> Waiting]
  BY DEF Init
<1>2. DOMAIN file = {} /\ DOMAIN tokens = {}
  BY <1>1
<1>3. file = [t \in {} |-> 0] /\ tokens = [t \in {} |-> 0]
  BY <1>1
<1>4. FileType /\ TokenType
  BY <1>2, <1>3 DEF FileType, TokenType
<1>5. Waiting \in GetRecords
  BY DEF Waiting, GetRecords, Errors
<1>6. \A r \in Gets : get[r] = Waiting
  BY <1>1
<1>7. Claimed /\ \A r \in Gets : Progress(get[r])
  BY <1>6 DEF Claimed, Progress, Waiting
<1>8. ResourceReleased
  BY <1>2 DEF ResourceReleased
<1>9. QED
  BY <1>1, <1>4, <1>5, <1>7, <1>8 DEF DownloadInv

(* A GET that is being served goes on, and nothing else changes. *)
LEMMA ServeStep ==
  ASSUME DownloadInv, NEW r \in Gets,
         \/ Write(r) \/ WriteNothing(r) \/ WriteTooMuch(r)
         \/ SourceFails(r) \/ Served(r)
  PROVE  DownloadInv'
<1>0. /\ get \in [Gets -> GetRecords] /\ Claimed /\ Progress(get[r])
      /\ FileType /\ get[r].pc = "serving"
      /\ UNCHANGED <<clock, file, tokens, released>>
  BY DEF DownloadInv, Write, WriteNothing, WriteTooMuch, SourceFails, Served
<1> DEFINE g == get'[r]
<1>1. /\ get[r].sent \in Nat /\ get[r].left \in Nat /\ get[r] \in GetRecords
      /\ get[r].err = "none" /\ get[r].end = "open"
      /\ get[r].wrote => get[r].status = "200"
      /\ get[r].sent + get[r].left = file[get[r].token].length
  BY <1>0 DEF GetRecords, Progress
<1>2. /\ get' \in [Gets -> GetRecords]
      /\ \A s \in Gets \ {r} : get'[s] = get[s]
      /\ g.token = get[r].token /\ g.pc \in {"serving", "returned"}
      /\ g.pc = "serving" => g.err = "none"
      /\ g.sent + g.left = file[get[r].token].length
      /\ g.wrote => g.status = "200"
      /\ g.err = "none" => g.end = "open"
      /\ g.pc = "returned" /\ g.err = "none" => g.left = 0
  <2>1. CASE Write(r)
    <3> DEFINE begun == [get EXCEPT ![r].wrote = TRUE, ![r].status = "200"]
               b == [get[r] EXCEPT !.wrote = TRUE, !.status = "200"]
    <3>1. b \in GetRecords /\ begun = [get EXCEPT ![r] = b]
      BY <1>0, <1>1 DEF GetRecords
    <3>2. /\ b.wrote /\ b.status = "200" /\ b.token = get[r].token
          /\ b.pc = "serving" /\ b.sent = get[r].sent /\ b.left = get[r].left
          /\ b.err = "none" /\ b.end = "open"
      BY <1>0, <1>1 DEF GetRecords
    <3>3. /\ get[r].left > 0
          /\ \/ get' = [begun EXCEPT ![r].sent = @ + 1, ![r].left = @ - 1]
             \/ get' = [begun EXCEPT ![r].pc = "returned", ![r].err = "other"]
             \/ get' = [begun EXCEPT ![r].pc = "returned", ![r].err = "other",
                                     ![r].end = "cut"]
      BY <2>1 DEF Write
    <3> HIDE DEF b
    <3>4. /\ begun \in [Gets -> GetRecords] /\ begun[r] = b
          /\ \A s \in Gets \ {r} : begun[s] = get[s]
      BY <1>0, <3>1
    <3> HIDE DEF begun
    <3>5. CASE get' = [begun EXCEPT ![r].sent = @ + 1, ![r].left = @ - 1]
      <4> DEFINE v == [b EXCEPT !.sent = @ + 1, !.left = @ - 1]
      <4>0. b.sent + 1 \in Nat /\ b.left - 1 \in Nat
        BY <1>1, <3>2, <3>3
      <4>1. v \in GetRecords
        BY <3>1, <4>0 DEF GetRecords
      <4>2. get' = [begun EXCEPT ![r] = v]
        BY <3>4, <3>5
      <4>3. /\ v.wrote /\ v.status = "200" /\ v.token = get[r].token
            /\ v.pc = "serving" /\ v.err = "none" /\ v.end = "open"
            /\ v.sent = get[r].sent + 1 /\ v.left = get[r].left - 1
        BY <3>1, <3>2 DEF GetRecords
      <4> HIDE DEF v
      <4>4. /\ get' \in [Gets -> GetRecords] /\ get'[r] = v
            /\ \A s \in Gets \ {r} : get'[s] = get[s]
        BY <3>4, <4>1, <4>2
      <4>5. v.sent + v.left = file[get[r].token].length
        BY <1>1, <4>3
      <4>6. QED
        BY <4>3, <4>4, <4>5
    <3>6. CASE \/ get' = [begun EXCEPT ![r].pc = "returned", ![r].err = "other"]
               \/ get' = [begun EXCEPT ![r].pc = "returned", ![r].err = "other",
                                       ![r].end = "cut"]
      <4>1. PICK e \in {"open", "cut"} :
              get' = [begun EXCEPT ![r] = [b EXCEPT !.pc = "returned",
                                             !.err = "other", !.end = e]]
        <5>1. CASE get' = [begun EXCEPT ![r].pc = "returned",
                                        ![r].err = "other"]
          <6>1. [b EXCEPT !.pc = "returned", !.err = "other"]
                  = [b EXCEPT !.pc = "returned", !.err = "other", !.end = "open"]
            BY <3>1, <3>2 DEF GetRecords
          <6>2. QED
            BY <3>4, <5>1, <6>1
        <5>2. CASE get' = [begun EXCEPT ![r].pc = "returned",
                                        ![r].err = "other", ![r].end = "cut"]
          BY <3>4, <5>2
        <5>3. QED
          BY <3>6, <5>1, <5>2
      <4> DEFINE v == [b EXCEPT !.pc = "returned", !.err = "other", !.end = e]
      <4>2. v \in GetRecords
        BY <3>1 DEF GetRecords, Errors
      <4>3. /\ v.wrote /\ v.status = "200" /\ v.token = get[r].token
            /\ v.pc = "returned" /\ v.err = "other"
            /\ v.sent = get[r].sent /\ v.left = get[r].left
        BY <3>1, <3>2 DEF GetRecords
      <4> HIDE DEF v
      <4>4. /\ get' \in [Gets -> GetRecords] /\ get'[r] = v
            /\ \A s \in Gets \ {r} : get'[s] = get[s]
        BY <3>4, <4>1, <4>2 DEF v
      <4>5. QED
        BY <1>1, <4>3, <4>4
    <3>7. QED
      BY <3>3, <3>5, <3>6
  <2>2. CASE WriteNothing(r)
    BY <1>0, <1>1, <2>2 DEF WriteNothing, GetRecords
  <2>3. CASE WriteTooMuch(r) \/ SourceFails(r)
    BY <1>0, <1>1, <2>3 DEF WriteTooMuch, SourceFails, GetRecords, Errors
  <2>4. CASE Served(r)
    BY <1>0, <1>1, <2>4 DEF Served, GetRecords
  <2>5. QED
    BY <2>1, <2>2, <2>3, <2>4
<1> HIDE DEF g
<1>3. Progress(get[r])'
  BY <1>0, <1>2 DEF Progress, g
<1>4. Claimed'
  BY <1>0, <1>2 DEF Claimed, g
<1>5. \A s \in Gets : Progress(get[s])'
  <2>1. ASSUME NEW s \in Gets \ {r}
        PROVE  Progress(get[s])'
    BY <1>0, <1>2 DEF DownloadInv, Progress, AnswersItsClient, LooksComplete
  <2>2. QED
    BY <1>3, <2>1
<1>6. ResourceReleased'
  <2>1. \A t \in DOMAIN file : Held(t) => Held(t)'
    BY <1>0, <1>2 DEF Held, g
  <2>2. QED
    BY <1>0, <2>1 DEF DownloadInv, ResourceReleased
<1>7. QED
  BY <1>0, <1>4, <1>2, <1>5, <1>6 DEF DownloadInv, FileType, TokenType

(* A mint registers its own token and drops others with their resources.   *)
LEMMA MintStep ==
  ASSUME DownloadInv, NEW t \in Tokens, NEW length \in Sizes,
         NEW size \in Sizes \cup {0}, Mint(t, length, size)
  PROVE  DownloadInv'
<1> DEFINE gone == {u \in DOMAIN tokens : Expired(u)}
           e == [expires |-> clock + TTL, used |-> FALSE]
           f0 == [length |-> length, size |-> size]
<1>0. /\ clock \in Nat /\ FileType /\ TokenType /\ Claimed
      /\ released \in [Tokens -> Nat] /\ get \in [Gets -> GetRecords]
      /\ t \notin DOMAIN file /\ file' = Set(file, t, f0)
      /\ tokens' = Set(Without(gone), t, e) /\ ReleaseEach(gone)
      /\ UNCHANGED <<clock, get>>
  BY DEF DownloadInv, Mint
<1>1. /\ DOMAIN file' = DOMAIN file \cup {t} /\ FileType'
      /\ \A u \in DOMAIN file : file'[u] = file[u]
  <2>1. DOMAIN file \subseteq Tokens /\ file \in [DOMAIN file -> Files]
    BY <1>0 DEF FileType
  <2>2. f0 \in Files
    BY DEF Files
  <2>3. file' = Set(file, t, f0)
    BY <1>0
  <2> HIDE DEF f0
  <2>4. /\ DOMAIN Set(file, t, f0) = DOMAIN file \cup {t}
        /\ Set(file, t, f0) \in [DOMAIN file \cup {t} -> Files]
        /\ \A u \in DOMAIN file \ {t} : Set(file, t, f0)[u] = file[u]
    BY <2>1, <2>2 DEF Set
  <2>5. QED
    BY <1>0, <2>1, <2>3, <2>4 DEF FileType
<1>2. /\ DOMAIN tokens' = (DOMAIN tokens \ gone) \cup {t} /\ TokenType'
      /\ \A u \in DOMAIN tokens' \ {t} : tokens'[u] = tokens[u]
  <2>1. e \in [expires : Nat, used : BOOLEAN]
    BY <1>0, DownloadEndpointAssumption
  <2>2. /\ DOMAIN Without(gone) = DOMAIN tokens \ gone
        /\ Without(gone) \in [DOMAIN Without(gone) ->
                                [expires : Nat, used : BOOLEAN]]
        /\ \A u \in DOMAIN tokens \ gone : Without(gone)[u] = tokens[u]
    BY <1>0 DEF Without, TokenType
  <2> DEFINE f == Without(gone)
  <2>3. /\ DOMAIN Set(f, t, e) = DOMAIN f \cup {t}
        /\ Set(f, t, e) \in [DOMAIN f \cup {t} -> [expires : Nat, used : BOOLEAN]]
        /\ Set(f, t, e)[t] = e
        /\ \A u \in DOMAIN f \ {t} : Set(f, t, e)[u] = f[u]
    <3> HIDE DEF e, gone, f
    <3>1. f \in [DOMAIN f -> [expires : Nat, used : BOOLEAN]]
      BY <2>2 DEF f
    <3>2. QED
      BY <2>1, <3>1 DEF Set
  <2>4. DOMAIN tokens \subseteq DOMAIN file
    BY <1>0 DEF TokenType
  <2>5. tokens' = Set(f, t, e)
    BY <1>0
  <2> HIDE DEF e, gone
  <2>6. QED
    BY <1>1, <2>2, <2>3, <2>4, <2>5 DEF TokenType
<1>3. /\ released' \in [Tokens -> Nat]
      /\ \A u \in Tokens : released'[u] >= released[u]
      /\ \A u \in gone \cap Tokens : released'[u] > 0
  BY <1>0 DEF ReleaseEach
<1>4. Claimed'
  BY <1>0, <1>1, <1>2 DEF Claimed
<1>5. \A r \in Gets : Progress(get[r])'
  <2> SUFFICES ASSUME NEW r \in Gets
               PROVE  Progress(get[r])'
    OBVIOUS
  <2>1. get[r].token # "none" => get[r].token \in DOMAIN file
    BY <1>0 DEF Claimed
  <2>2. get[r].pc \in {"serving", "returned"} => get[r].token # "none"
    BY <1>0 DEF Claimed
  <2>3. Progress(get[r])
    BY DEF DownloadInv
  <2>4. QED
    BY <1>0, <1>1, <2>1, <2>2, <2>3
       DEF Progress, AnswersItsClient, LooksComplete
<1>6. ResourceReleased'
  <2> SUFFICES ASSUME NEW u \in DOMAIN file', u \notin DOMAIN tokens', ~Held(u)'
               PROVE  released'[u] > 0
    BY DEF ResourceReleased
  <2>1. u \in DOMAIN file /\ u \in Tokens /\ ~Held(u)
    BY <1>0, <1>1, <1>2 DEF Held, FileType
  <2>2. CASE u \in gone
    BY <1>3, <2>1, <2>2
  <2>3. CASE u \notin DOMAIN tokens
    <3>1. released[u] > 0
      BY <2>1, <2>3 DEF DownloadInv, ResourceReleased
    <3>2. QED
      BY <1>0, <1>3, <2>1, <3>1
  <2>4. QED
    BY <1>2, <2>2, <2>3
<1>7. QED
  BY <1>0, <1>1, <1>2, <1>3, <1>4, <1>5, <1>6 DEF DownloadInv

(* A claim takes a token nobody has, or drops it. *)
LEMMA ClaimStep ==
  ASSUME DownloadInv, NEW r \in Gets, NEW t \in Tokens, Claim(r, t)
  PROVE  DownloadInv'
<1>0. /\ clock \in Nat /\ FileType /\ TokenType /\ Claimed
      /\ released \in [Tokens -> Nat] /\ get \in [Gets -> GetRecords]
      /\ get[r].pc = "waiting" /\ UNCHANGED <<clock, file>>
      /\ get[r] = Waiting /\ t # "none"
      /\ \A s \in Gets : Progress(get[s])
  BY DownloadEndpointAssumption DEF DownloadInv, Claim, Progress
<1>1. CASE Claimable(t)
  <2>1. /\ tokens' = [tokens EXCEPT ![t].used = TRUE] /\ UNCHANGED released
        /\ get' = [get EXCEPT ![r].pc = "serving", ![r].token = t,
                              ![r].left = file[t].length]
        /\ t \in DOMAIN tokens /\ ~tokens[t].used
    BY <1>1 DEF Claim, Claimable
  <2>2. file[t].length \in Nat /\ t \in DOMAIN file
    BY <1>0, <2>1, DownloadEndpointAssumption DEF FileType, TokenType, Files
  <2>3. /\ TokenType' /\ DOMAIN tokens' = DOMAIN tokens
        /\ tokens'[t].used
        /\ \A u \in DOMAIN tokens : tokens[u].used => tokens'[u].used
    BY <1>0, <2>1 DEF TokenType
  <2> DEFINE g == [Waiting EXCEPT !.pc = "serving", !.token = t, 
                           !.left = file[t].length]
  <2>4. g \in GetRecords
    BY <2>2 DEF Waiting, GetRecords, Errors
  <2>5. /\ get' \in [Gets -> GetRecords] /\ get'[r] = g
        /\ \A s \in Gets \ {r} : get'[s] = get[s]
    BY <1>0, <2>1, <2>4
  <2>6. /\ g.pc = "serving" /\ g.token = t /\ g.left = file[t].length /\ g.sent = 0
        /\ g.err = "none" /\ ~g.wrote /\ g.end = "open"
    BY DEF Waiting
  <2> HIDE DEF g
  <2>7. \A s \in Gets : get[s].token # t
    BY <1>0, <2>1 DEF Claimed
  <2>8. Claimed'
    BY <1>0, <2>2, <2>3, <2>5, <2>6, <2>7 DEF Claimed
  <2>9. \A s \in Gets : Progress(get[s])'
    <3>1. Progress(get[r])'
      BY <1>0, <2>2, <2>5, <2>6 DEF Progress
    <3>2. ASSUME NEW s \in Gets \ {r}
          PROVE  Progress(get[s])'
      BY <1>0, <2>5 DEF Progress, AnswersItsClient, LooksComplete
    <3>3. QED
      BY <3>1, <3>2
  <2>10. ResourceReleased'
    <3>1. \A u \in DOMAIN file : Held(u) => Held(u)'
      <4>1. \A u \in DOMAIN file : get[r].token # u
        BY <1>0, DownloadEndpointAssumption DEF FileType, Waiting
      <4>2. QED
        BY <2>5, <4>1 DEF Held
    <3>2. QED
      BY <1>0, <2>1, <2>3, <3>1 DEF DownloadInv, ResourceReleased
  <2>11. QED
    BY <1>0, <2>1, <2>3, <2>5, <2>8, <2>9, <2>10 DEF DownloadInv, FileType
<1>2. CASE ~Claimable(t)
  <2>1. /\ tokens' = Without({t}) /\ ReleaseEach({t} \cap DOMAIN tokens)
        /\ get' = [get EXCEPT ![r].pc = "done", ![r].status = "404",
                              ![r].end = "clean"]
    BY <1>2 DEF Claim, Drop
  <2>2. /\ DOMAIN tokens' = DOMAIN tokens \ {t} /\ TokenType'
        /\ \A u \in DOMAIN tokens' : tokens'[u] = tokens[u]
    BY <1>0, <2>1 DEF Without, TokenType
  <2>3. /\ released' \in [Tokens -> Nat]
        /\ \A u \in Tokens : released'[u] >= released[u]
        /\ t \in DOMAIN tokens => released'[t] > 0
    BY <1>0, <2>1 DEF ReleaseEach
  <2> DEFINE g == [Waiting EXCEPT !.pc = "done", !.status = "404",
                                  !.end = "clean"]
  <2>4. g \in GetRecords /\ g.pc = "done" /\ g.token = "none"
    BY DEF Waiting, GetRecords, Errors
  <2>5. /\ get' \in [Gets -> GetRecords] /\ get'[r] = g
        /\ \A s \in Gets \ {r} : get'[s] = get[s]
    BY <1>0, <2>1, <2>4
  <2> HIDE DEF g
  <2>6. Claimed'
    BY <1>0, <2>2, <2>4, <2>5 DEF Claimed
  <2>7. \A s \in Gets : Progress(get[s])'
    <3>1. Progress(get[r])'
      BY <2>4, <2>5 DEF Progress
    <3>2. ASSUME NEW s \in Gets \ {r}
          PROVE  Progress(get[s])'
      BY <1>0, <2>5 DEF Progress, AnswersItsClient, LooksComplete
    <3>3. QED
      BY <3>1, <3>2
  <2>8. ResourceReleased'
    <3> SUFFICES ASSUME NEW u \in DOMAIN file, u \notin DOMAIN tokens', ~Held(u)'
                 PROVE  released'[u] > 0
      BY <1>0 DEF ResourceReleased
    <3>1. u \in Tokens
      BY <1>0 DEF FileType
    <3>2. ~Held(u)
      <4>1. \A s \in Gets : get[s].token = u => s # r
        BY <1>0, <3>1, DownloadEndpointAssumption DEF Waiting
      <4>2. QED
        BY <2>5, <4>1 DEF Held
    <3>3. CASE u = t /\ t \in DOMAIN tokens
      BY <2>3, <3>3
    <3>4. CASE u \notin DOMAIN tokens
      <4>1. released[u] > 0
        BY <3>2, <3>4 DEF DownloadInv, ResourceReleased
      <4>2. QED
        BY <1>0, <2>3, <3>1, <4>1
    <3>5. QED
      BY <2>2, <3>3, <3>4
  <2>9. QED
    BY <1>0, <2>2, <2>3, <2>5, <2>6, <2>7, <2>8 DEF DownloadInv, FileType
<1>3. QED
  BY <1>1, <1>2

(* The answer runs the hook and settles the status. *)
LEMMA AnswerStep ==
  ASSUME DownloadInv, NEW r \in Gets, Answer(r)
  PROVE  DownloadInv'
<1> DEFINE u == get[r].token
           st == IF get[r].wrote THEN get[r].status ELSE StatusFor(get[r].err)
           end == EndOf(r, st)
           g == [get[r] EXCEPT !.pc = "done", !.status = st, !.end = end]
<1>0. /\ clock \in Nat /\ FileType /\ TokenType /\ Claimed
      /\ released \in [Tokens -> Nat] /\ get \in [Gets -> GetRecords]
      /\ get[r].pc = "returned" /\ UNCHANGED <<clock, file, tokens>>
      /\ ReleaseEach({u}) /\ u # "none" /\ u \in DOMAIN file
      /\ \A s \in Gets : Progress(get[s])
  BY DEF DownloadInv, Answer, Claimed
<1>1. /\ released' \in [Tokens -> Nat]
      /\ \A t \in Tokens : released'[t] >= released[t]
      /\ u \in Tokens => released'[u] > 0
  BY <1>0 DEF ReleaseEach
<1>2. /\ st \in {"none", "200", "404", "413", "500"}
      /\ ~get[r].wrote => st = StatusFor(get[r].err)
      /\ get[r].wrote => st = "200"
      /\ end \in {"clean", "cut"}
      /\ get[r].sent \in Nat /\ get[r].left \in Nat
  BY <1>0 DEF GetRecords, StatusFor, Errors, EndOf, Progress
<1>3. get' = [get EXCEPT ![r].pc = "done", ![r].status = st, ![r].end = end]
  BY DEF Answer
<1>4. /\ end = "clean" <=> get[r].end # "cut" /\ (st = "200" => ~FallsShort(r))
      /\ FallsShort(r) <=> file[u].size > 0 /\ get[r].sent # file[u].size
  BY DEF EndOf, FallsShort, Announces
<1> HIDE DEF st, end
<1>5. /\ get' \in [Gets -> GetRecords] /\ \A s \in Gets \ {r} : get'[s] = get[s]
      /\ get'[r].pc = "done" /\ get'[r].token = u /\ get'[r].status = st
      /\ get'[r].err = get[r].err /\ get'[r].sent = get[r].sent
      /\ get'[r].left = get[r].left /\ get'[r].wrote = get[r].wrote
      /\ get'[r].end = end
  BY <1>0, <1>2, <1>3 DEF GetRecords
<1>6. Claimed'
  BY <1>0, <1>5 DEF Claimed
<1>7. \A s \in Gets : Progress(get[s])'
  <2>1. Progress(get[r])'
    <3> DEFINE f == file[u]
               answered == get'[r]
    <3>1. /\ get[r].sent + get[r].left = f.length
          /\ get[r].err = "none" => get[r].left = 0 /\ get[r].end = "open"
          /\ f.length \in Nat /\ f.size \in Nat
      BY <1>0, DownloadEndpointAssumption DEF Progress, FileType, Files
    <3>2. ~get[r].wrote => st = StatusFor(get[r].err)
      BY <1>2
    <3>3. CASE get[r].err = "none"
      <4>1. st = "200" /\ get[r].sent = f.length
        BY <1>2, <3>1, <3>3 DEF StatusFor
      <4>2. f.size \in {0, f.length} => end = "clean"
        BY <1>2, <1>4, <3>1, <3>3, <4>1
      <4>3. AnswersItsClient(answered)
        BY <1>5, <3>3, <4>1, <4>2 DEF AnswersItsClient, LooksComplete
      <4>4. QED
        BY <1>0, <1>5, <4>3 DEF Progress, AnswersItsClient, LooksComplete
    <3>4. CASE get[r].err # "none"
      <4>1. st = "200" /\ end = "clean" /\ f.size = f.length
              => get[r].sent = f.length
        BY <1>2, <1>4, <3>1
      <4>2. AnswersItsClient(answered)
        BY <1>5, <3>2, <3>4, <4>1 DEF AnswersItsClient, LooksComplete
      <4>3. QED
        BY <1>0, <1>5, <4>2 DEF Progress, AnswersItsClient, LooksComplete
    <3>5. QED
      BY <3>3, <3>4
  <2>2. ASSUME NEW s \in Gets \ {r}
        PROVE  Progress(get[s])'
    BY <1>0, <1>5 DEF Progress, AnswersItsClient, LooksComplete
  <2>3. QED
    BY <2>1, <2>2
<1>8. ResourceReleased'
  <2> SUFFICES ASSUME NEW t \in DOMAIN file, t \notin DOMAIN tokens, ~Held(t)'
               PROVE  released'[t] > 0
    BY <1>0 DEF ResourceReleased
  <2>1. t \in Tokens
    BY <1>0 DEF FileType
  <2>2. CASE t = u
    BY <1>1, <2>1, <2>2
  <2>3. CASE t # u
    <3>1. ~Held(t)
      BY <1>5, <2>3 DEF Held
    <3>2. released[t] > 0
      BY <3>1 DEF DownloadInv, ResourceReleased
    <3>3. QED
      BY <1>0, <1>1, <2>1, <3>2
  <2>4. QED
    BY <2>2, <2>3
<1>9. QED
  BY <1>0, <1>1, <1>5, <1>6, <1>7, <1>8 DEF DownloadInv, FileType, TokenType

LEMMA DownloadStep == DownloadInv /\ [Next]_vars => DownloadInv'
<1> SUFFICES ASSUME DownloadInv, [Next]_vars
             PROVE  DownloadInv'
  OBVIOUS
<1>1. CASE Tick \/ UNCHANGED vars
  <2>1. /\ clock' \in Nat /\ UNCHANGED <<file, tokens, released, get>>
    BY <1>1 DEF DownloadInv, Tick, vars
  <2>2. \A r \in Gets : Progress(get[r])'
    BY <2>1 DEF DownloadInv, Progress, AnswersItsClient, LooksComplete
  <2>3. ResourceReleased'
    BY <2>1 DEF DownloadInv, ResourceReleased, Held
  <2>4. QED
    BY <2>1, <2>2, <2>3 DEF DownloadInv, FileType, TokenType, Claimed
<1>2. QED
  BY <1>1, MintStep, ClaimStep, ServeStep, AnswerStep DEF Next

(* What the downloads keep to, and what the theorems follow from.          *)
LEMMA DownloadInvariant == Spec => []DownloadInv
BY DownloadInit, DownloadStep, PTL DEF Spec

-----------------------------------------------------------------------------

(* Type correctness of the coordinator and its GETs.                       *)
THEOREM TypeCorrect == Spec => []TypeOK
<1>1. DownloadInv => TypeOK
  BY DEF DownloadInv, FileType, Files, TokenType, Claimed, GetRecords, TypeOK
<1>2. QED
  BY <1>1, DownloadInvariant, PTL

(* The GET that claims a token is the only one ever served its file, for   *)
(* any number of GETs that race for it (Mint, claim).                      *)
THEOREM TokensAreServedOnce == Spec => []ServedOnce
<1>1. DownloadInv => ServedOnce
  <2> SUFFICES ASSUME DownloadInv, NEW t \in Tokens
               PROVE  Cardinality({r \in Gets : get[r].token = t}) <= 1
    BY DEF ServedOnce
  <2> DEFINE S == {r \in Gets : get[r].token = t}
  <2>1. \A r, s \in S : r = s
    BY DownloadEndpointAssumption DEF DownloadInv, Claimed
  <2>2. CASE S = {}
    BY <2>2, FS_EmptySet
  <2>3. CASE S # {}
    <3>1. PICK r : r \in S
      BY <2>3
    <3>2. S = {r}
      BY <2>1, <3>1
    <3>3. Cardinality({r}) = 1
      BY FS_Singleton
    <3> HIDE DEF S
    <3>4. Cardinality(S) <= 1
      BY <3>2, <3>3
    <3>5. QED
      BY <3>4 DEF S
  <2>4. QED
    BY <2>2, <2>3
<1>2. QED
  BY <1>1, DownloadInvariant, PTL

(* Whichever path ends a token's life, its resource is given up (release). *)
THEOREM ResourcesAreReleased == Spec => []ResourceReleased
<1>1. DownloadInv => ResourceReleased
  BY DEF DownloadInv
<1>2. QED
  BY <1>1, DownloadInvariant, PTL

(* However the source, the cap and the connection fail, an answer tells    *)
(* its client: by its status before anything was written, and afterwards,  *)
(* if the size was declared right, by a body cut short of its length; and  *)
(* a whole file is not made to look truncated (getHandler,                 *)
(* SizeLimitedWriter).                                                     *)
THEOREM AnswersAreHonest == Spec => []HonestAnswer
<1>1. DownloadInv => HonestAnswer
  BY DEF DownloadInv, Progress, HonestAnswer
<1>2. QED
  BY <1>1, DownloadInvariant, PTL

=============================================================================
