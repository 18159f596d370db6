------------------------ MODULE ShareVisit_proofs ------------------------
(***************************************************************************)
(* Proofs about the visits of shares, for any set of tabs and shares: the  *)
(* jar holds only tokens that were earned, locked content stays hidden     *)
(* until the password was accepted, tokens cross only between tabs of one  *)
(* service, and a download is forwarded only if it was permitted after it  *)
(* was asked for.                                                          *)
(***************************************************************************)
EXTENDS ShareVisit, TLAPS

USE NoShareAssumption, ServiceAssumption, KindAssumption, LockedAssumption

\* What a handler may put into an answer for tab t: a token of its share that
\* was earned, a prompt only for a locked share, content only for an open one
\* or after the password.
MayAnswer(t, cookie, page) ==
    /\ cookie \in Tokens /\ Earned(cookie)
    /\ cookie # NoToken => cookie.share = On(t)
    /\ page \in {"keep", "error"} \cup Prompts \cup Layouts
    /\ page \in Prompts => Locked[On(t)]
    /\ page \in Layouts /\ Locked[On(t)] => On(t) \in accepted

\* What no step of a handler touches, except that a login adds to accepted.
Untouched == <<share, view, listing, reloaded, jar, permit, sawPermit>>

\* The tokens that are issued for a share are tokens, and name it.
LEMMA TokenOfShare ==
    ASSUME NEW s \in Shares, NEW g \in Grades
    PROVE  Token(s, g) \in Tokens /\ Token(s, g).share = s
  BY DEF Token, Tokens

LEMMA PasswordTokenOfShare ==
    ASSUME NEW s \in Shares
    PROVE  LET k == Token(s, "password") IN
           k \in Tokens /\ k.share = s /\ k.grade = "password"
  BY DEF Token, Tokens, Grades

LEMMA LandingTokenOfShare ==
    ASSUME NEW s \in Shares, NEW k \in LandingTokens(s)
    PROVE  k \in Tokens /\ (k # NoToken => k.share = s)
  <1>1. "anonymous" \in Grades /\ "open" \in Grades /\ NoToken \in Tokens
    BY DEF Grades, Tokens
  <1> QED
    BY <1>1, TokenOfShare DEF LandingTokens

LEMMA Initially == Init => IInv
  <1> SUFFICES ASSUME Init PROVE IInv
    OBVIOUS
  <1>1. TypeOK
    BY DEF Init, TypeOK, Keep, Tokens, Layouts, Prompts
  <1>2. HasShare /\ PromptMeansLocked /\ TokenInHand
    BY DEF Init, HasShare, PromptMeansLocked, TokenInHand, Keep, Prompts
  <1>3. ReplyIsEarned /\ JarIsEarned
    BY DEF Init, ReplyIsEarned, JarIsEarned, Earned, Keep, Layouts
  <1>4. ContentNeedsPassword /\ TokensHaveTabs
    BY DEF Init, ContentNeedsPassword, TokensHaveTabs, Layouts
  <1>5. PermitWasSeen /\ DownloadRechecked
    BY DEF Init, PermitWasSeen, DownloadRechecked
  <1> QED
    BY <1>1, <1>2, <1>3, <1>4, <1>5 DEF IInv

-----------------------------------------------------------------------------
(* Steps of the handlers *)

\* A handler answers.
LEMMA AnsweringStep ==
    ASSUME IInv, NEW t \in Tabs, call[t] # "idle",
           NEW cookie, NEW page, NEW rows \in {"keep", "shown", "failed"},
           MayAnswer(t, cookie, page), Answer(t, cookie, page, rows),
           \/ sid' = sid
           \/ \E k \in LandingTokens(On(t)) : sid' = [sid EXCEPT ![t] = k],
           offers' \in [Tabs -> BOOLEAN], blind' \in [Tabs -> BOOLEAN],
           UNCHANGED <<Untouched, accepted>>
    PROVE  IInv'
  <1> USE DEF IInv, MayAnswer, Answer, Untouched
  <1>1. On(t) \in Shares
    BY DEF HasShare
  <1>2. sid' \in [Tabs -> Tokens]
    <2>1. sid \in [Tabs -> Tokens]
      BY DEF TypeOK
    <2>2. CASE sid' = sid
      BY <2>1, <2>2
    <2>3. ASSUME NEW k \in LandingTokens(On(t)), sid' = [sid EXCEPT ![t] = k]
          PROVE  sid' \in [Tabs -> Tokens]
      <3>1. k \in Tokens
        BY <1>1, LandingTokenOfShare
      <3> QED
        BY <2>1, <2>3, <3>1
    <2> QED
      BY <2>2, <2>3
  <1>3. /\ \A u \in Tabs : call'[u] = IF u = t THEN "answered" ELSE call[u]
        /\ \A u \in Tabs \ {t} : reply'[u] = reply[u] /\ sid'[u] = sid[u]
        /\ reply'[t] = [cookie |-> cookie, page |-> page, rows |-> rows]
    BY DEF TypeOK
  <1>4. TypeOK'
    <2>1. call' \in [Tabs -> {"idle", "answered"} \cup AtProxy]
      BY DEF TypeOK
    <2>2. reply' \in [Tabs -> [cookie : Tokens,
                               page : {"keep", "error"} \cup Prompts \cup Layouts,
                               rows : {"keep", "shown", "failed"}]]
      BY DEF TypeOK
    <2> QED
      BY <1>2, <2>1, <2>2 DEF TypeOK
  <1>5. HasShare' /\ PromptMeansLocked' /\ TokenInHand'
    BY <1>1, <1>3 DEF HasShare, PromptMeansLocked, TokenInHand, On
  <1>6. ReplyIsEarned' /\ JarIsEarned' /\ ContentNeedsPassword'
    BY <1>3 DEF ReplyIsEarned, JarIsEarned, ContentNeedsPassword, Earned, On
  <1>7. TokensHaveTabs'
    <2>1. sid'[t] # NoToken /\ sid'[t] # sid[t] => sid'[t].share = On(t)
      BY <1>1, LandingTokenOfShare DEF TypeOK
    <2> QED
      BY <1>1, <1>3, <2>1 DEF TokensHaveTabs, On
  <1>8. PermitWasSeen' /\ DownloadRechecked'
    BY <1>3 DEF PermitWasSeen, DownloadRechecked, On
  <1> QED
    BY <1>4, <1>5, <1>6, <1>7, <1>8

\* A handler gives up, with a token that it may pass on or none.
LEMMA FailingStep ==
    ASSUME IInv, NEW t \in Tabs, call[t] # "idle",
           NEW cookie, MayAnswer(t, cookie, "keep"), Fail(t, cookie), sid' = sid,
           offers' = offers, blind' = blind, UNCHANGED <<Untouched, accepted>>
    PROVE  IInv'
  <1>1. PICK page \in {"keep", "error"}, rows \in {"keep", "failed"} :
            Answer(t, cookie, page, rows)
    BY DEF Fail
  <1>2. MayAnswer(t, cookie, page)
    BY DEF MayAnswer, Prompts, Layouts
  <1>3. offers' \in [Tabs -> BOOLEAN] /\ blind' \in [Tabs -> BOOLEAN]
    BY DEF IInv, TypeOK
  <1> QED
    BY <1>1, <1>2, <1>3, AnsweringStep

\* No cookie and no new page may always be answered.
LEMMA MayFail ==
    ASSUME NEW t
    PROVE  MayAnswer(t, NoToken, "keep")
  BY DEF MayAnswer, Tokens, Earned, Prompts, Layouts

\* A handler that goes on to its next NAS call, with a token for its share or
\* the one it had.
LEMMA ContinuingStep ==
    ASSUME IInv, NEW t \in Tabs, call[t] # "idle",
           NEW to \in {"landed", "logged", "checked"},
           call' = [call EXCEPT ![t] = to], UNCHANGED <<Untouched, reply, blind>>,
           NEW k \in Tokens, sid' = [sid EXCEPT ![t] = k],
           k # NoToken => k = sid[t] \/ k.share = On(t),
           accepted' = accepted \/ accepted' = accepted \cup {On(t)},
           offers' \in [Tabs -> BOOLEAN],
           to = "landed" => /\ k \in LandingTokens(On(t))
                            /\ Service[On(t)] = "photo" => ~Locked[On(t)],
           to = "logged" => /\ k = Token(On(t), "password")
                            /\ On(t) \in accepted' /\ Locked[On(t)],
           to = "checked" /\ Service[On(t)] # "sharing" => sawPermit[t]
    PROVE  IInv'
  <1> USE DEF IInv, Untouched
  <1>1. On(t) \in Shares /\ accepted \subseteq accepted'
    BY DEF HasShare
  <1>2. /\ \A u \in Tabs : call'[u] = IF u = t THEN to ELSE call[u]
        /\ \A u \in Tabs : sid'[u] = IF u = t THEN k ELSE sid[u]
    BY DEF TypeOK
  <1>3. TypeOK'
    BY <1>1 DEF TypeOK, AtProxy
  <1>4. HasShare' /\ PromptMeansLocked'
    BY <1>1, <1>2 DEF HasShare, PromptMeansLocked, On
  <1>5. TokenInHand'
    BY <1>1, <1>2 DEF TokenInHand, On
  <1>6. ReplyIsEarned' /\ JarIsEarned' /\ ContentNeedsPassword'
    BY <1>1 DEF ReplyIsEarned, JarIsEarned, ContentNeedsPassword, Earned, On
  <1>7. TokensHaveTabs'
    BY <1>1, <1>2 DEF TokensHaveTabs, On
  <1>8. PermitWasSeen' /\ DownloadRechecked'
    BY <1>2 DEF PermitWasSeen, DownloadRechecked, On
  <1> QED
    BY <1>3, <1>4, <1>5, <1>6, <1>7, <1>8

LEMMA LandingStep ==
    ASSUME IInv, NEW t \in Tabs, Landing(t)
    PROVE  IInv'
  <1>1. On(t) \in Shares /\ call[t] = "page"
    BY DEF IInv, HasShare, Landing
  <1>2. UNCHANGED <<Untouched, blind, accepted>>
    BY DEF Landing, Untouched
  <1>3. CASE Fail(t, NoToken) /\ UNCHANGED <<sid, offers>>
    BY <1>1, <1>2, <1>3, MayFail, FailingStep
  <1>4. ASSUME NEW k \in LandingTokens(On(t)), sid' = [sid EXCEPT ![t] = k],
               offers' = [offers EXCEPT ![t] = Service[On(t)] = "photo"
                                               /\ permit[On(t)]],
               IF Service[On(t)] = "photo" /\ Locked[On(t)]
               THEN Answer(t, NoToken, "browsePrompt", "keep")
               ELSE call' = [call EXCEPT ![t] = "landed"] /\ UNCHANGED reply
        PROVE  IInv'
    <2>1. offers' \in [Tabs -> BOOLEAN] /\ blind' \in [Tabs -> BOOLEAN]
      BY <1>1, <1>2, <1>4 DEF IInv, TypeOK
    <2>2. CASE Service[On(t)] = "photo" /\ Locked[On(t)]
      <3>1. MayAnswer(t, NoToken, "browsePrompt")
        BY <2>2 DEF MayAnswer, Tokens, Earned, Prompts, Layouts
      <3> QED
        BY <1>1, <1>2, <1>4, <2>1, <2>2, <3>1, AnsweringStep
    <2>3. CASE ~(Service[On(t)] = "photo" /\ Locked[On(t)])
      <3>1. k \in Tokens /\ (k # NoToken => k.share = On(t))
        BY <1>1, LandingTokenOfShare
      <3>2. /\ call' = [call EXCEPT ![t] = "landed"]
            /\ UNCHANGED <<Untouched, reply, blind>> /\ accepted' = accepted
        BY <1>2, <1>4, <2>3
      <3>3. Service[On(t)] = "photo" => ~Locked[On(t)]
        BY <2>3
      <3> QED
        BY <1>1, <1>4, <2>1, <3>1, <3>2, <3>3, ContinuingStep
    <2> QED
      BY <2>2, <2>3
  <1> QED
    BY <1>3, <1>4 DEF Landing

LEMMA ContextStep ==
    ASSUME IInv, NEW t \in Tabs, Context(t)
    PROVE  IInv'
  <1>1. /\ On(t) \in Shares /\ call[t] = "landed" /\ sid[t] \in LandingTokens(On(t))
        /\ Service[On(t)] = "photo" => ~Locked[On(t)]
    BY DEF IInv, HasShare, TokenInHand, Context
  <1>2. UNCHANGED <<Untouched, blind, accepted>> /\ sid' = sid
    BY DEF Context, Untouched
  <1>3. offers' \in [Tabs -> BOOLEAN] /\ blind' \in [Tabs -> BOOLEAN]
    BY <1>1 DEF Context, IInv, TypeOK
  <1>4. sid[t] \in Tokens /\ (sid[t] # NoToken => sid[t].share = On(t))
    BY <1>1, LandingTokenOfShare
  <1>5. ~Locked[On(t)] => Earned(sid[t])
    BY <1>1, <1>4 DEF LandingTokens, Earned, Token
  <1>6. CASE /\ Fail(t, IF Service[On(t)] = "photo" THEN sid[t] ELSE NoToken)
             /\ UNCHANGED offers
    <2>1. MayAnswer(t, sid[t], "keep") \/ Service[On(t)] # "photo"
      BY <1>1, <1>4, <1>5 DEF MayAnswer, Prompts, Layouts
    <2> QED
      BY <1>1, <1>2, <1>6, <2>1, MayFail, FailingStep
  <1>7. CASE AsksPassword(t) /\ Prompt(t)
    <2>1. PICK p \in Prompts : Answer(t, NoToken, p, "keep")
      BY <1>7 DEF Prompt, PromptsFor, Prompts
    <2>2. MayAnswer(t, NoToken, p)
      BY <1>7 DEF MayAnswer, AsksPassword, Tokens, Earned, Prompts, Layouts
    <2> QED
      BY <1>1, <1>2, <1>3, <2>1, <2>2, AnsweringStep
  <1>8. CASE ~AsksPassword(t) /\ Answer(t, sid[t], Kind[On(t)], "keep")
    <2>1. MayAnswer(t, sid[t], Kind[On(t)])
      BY <1>1, <1>4, <1>5, <1>8 DEF MayAnswer, AsksPassword, Prompts, Layouts
    <2> QED
      BY <1>1, <1>2, <1>3, <1>8, <2>1, AnsweringStep
  <1> QED
    BY <1>6, <1>7, <1>8 DEF Context

LEMMA LoginStep ==
    ASSUME IInv, NEW t \in Tabs, Login(t)
    PROVE  IInv'
  <1>1. On(t) \in Shares /\ call[t] = "unlock" /\ Locked[On(t)]
    <2>1. call[t] = "unlock"
      BY DEF Login
    <2> QED
      BY <2>1 DEF IInv, HasShare, PromptMeansLocked
  <1>2. UNCHANGED <<Untouched, offers, blind>>
    BY DEF Login, Untouched, tabs
  <1>3. CASE Fail(t, NoToken) /\ UNCHANGED <<sid, accepted>>
    BY <1>1, <1>2, <1>3, MayFail, FailingStep
  <1>4. CASE /\ call' = [call EXCEPT ![t] = "logged"]
             /\ sid' = [sid EXCEPT ![t] = Token(On(t), "password")]
             /\ accepted' = accepted \cup {On(t)} /\ UNCHANGED reply
    <2>1. Token(On(t), "password") \in Tokens
          /\ Token(On(t), "password").share = On(t)
      BY <1>1, PasswordTokenOfShare
    <2>2. offers' \in [Tabs -> BOOLEAN] /\ On(t) \in accepted'
      BY <1>2, <1>4 DEF IInv, TypeOK
    <2> QED
      BY <1>1, <1>2, <1>4, <2>1, <2>2, ContinuingStep
  <1> QED
    BY <1>3, <1>4 DEF Login

LEMMA UnlockContextStep ==
    ASSUME IInv, NEW t \in Tabs, UnlockContext(t)
    PROVE  IInv'
  <1>1. /\ On(t) \in Shares /\ call[t] = "logged" /\ Locked[On(t)]
        /\ sid[t] = Token(On(t), "password") /\ On(t) \in accepted
    <2>1. call[t] = "logged"
      BY DEF UnlockContext
    <2> QED
      BY <2>1 DEF IInv, HasShare, PromptMeansLocked, TokenInHand
  <1>2. UNCHANGED <<Untouched, accepted>> /\ sid' = sid
    BY DEF UnlockContext, Untouched
  <1>3. PICK page \in Layouts : Answer(t, sid[t], page, "keep")
    BY <1>1 DEF UnlockContext, UnlockedLayout, Layouts
  <1>4. offers' \in [Tabs -> BOOLEAN] /\ blind' \in [Tabs -> BOOLEAN]
    BY <1>1 DEF UnlockContext, IInv, TypeOK
  <1>5. MayAnswer(t, sid[t], page)
    <2>1. sid[t] \in Tokens /\ sid[t].share = On(t) /\ sid[t].grade = "password"
      BY <1>1, PasswordTokenOfShare
    <2> QED
      BY <1>1, <2>1 DEF MayAnswer, Earned, Prompts, Layouts
  <1> QED
    BY <1>1, <1>2, <1>3, <1>4, <1>5, AnsweringStep

LEMMA ListStep ==
    ASSUME IInv, NEW t \in Tabs, List(t)
    PROVE  IInv'
  <1>1. call[t] = "list" /\ sid' = sid /\ UNCHANGED <<Untouched, offers, blind, accepted>>
    BY DEF List, Untouched, tabs
  <1>2. offers' \in [Tabs -> BOOLEAN] /\ blind' \in [Tabs -> BOOLEAN]
    BY <1>1 DEF IInv, TypeOK
  <1>3. CASE Fail(t, NoToken)
    BY <1>1, <1>3, MayFail, FailingStep
  <1>4. CASE Answer(t, NoToken, "keep", "shown")
    BY <1>1, <1>2, <1>4, MayFail, AnsweringStep
  <1> QED
    BY <1>3, <1>4 DEF List

LEMMA CheckDownloadStep ==
    ASSUME IInv, NEW t \in Tabs, CheckDownload(t)
    PROVE  IInv'
  <1>1. /\ call[t] = "download" /\ sid' = sid
        /\ UNCHANGED <<Untouched, offers, blind, accepted>>
    BY DEF CheckDownload, Untouched, tabs
  <1>2. CASE Fail(t, NoToken)
    BY <1>1, <1>2, MayFail, FailingStep
  <1>3. CASE MayDownload(t) /\ call' = [call EXCEPT ![t] = "checked"] /\ UNCHANGED reply
    <2>1. sid[t] \in Tokens /\ sid' = [sid EXCEPT ![t] = sid[t]]
      BY <1>1 DEF IInv, TypeOK
    <2>2. Service[On(t)] # "sharing" => permit[On(t)]
      <3>1. Service[On(t)] \in Services
        BY <1>1 DEF IInv, HasShare
      <3> QED
        BY <1>3, <3>1 DEF MayDownload, Services
    <2>3. Service[On(t)] # "sharing" => sawPermit[t]
      BY <1>1, <2>2 DEF IInv, PermitWasSeen
    <2>4. offers' \in [Tabs -> BOOLEAN]
      BY <1>1 DEF IInv, TypeOK
    <2> QED
      BY <1>1, <1>3, <2>1, <2>3, <2>4, ContinuingStep
  <1> QED
    BY <1>2, <1>3 DEF CheckDownload

LEMMA FetchStep ==
    ASSUME IInv, NEW t \in Tabs, Fetch(t)
    PROVE  IInv'
  <1>1. /\ call[t] = "checked" /\ sid' = sid /\ Answer(t, NoToken, "keep", "keep")
        /\ UNCHANGED <<Untouched, offers, blind, accepted>>
    BY DEF Fetch, Untouched, tabs
  <1>2. offers' \in [Tabs -> BOOLEAN] /\ blind' \in [Tabs -> BOOLEAN]
    BY <1>1 DEF IInv, TypeOK
  <1> QED
    BY <1>1, <1>2, MayFail, AnsweringStep

LEMMA LostStep ==
    ASSUME IInv, NEW t \in Tabs, Lost(t)
    PROVE  IInv'
  <1>1. /\ call[t] # "idle" /\ sid' = sid /\ Fail(t, NoToken)
        /\ UNCHANGED <<Untouched, offers, blind, accepted>>
    BY DEF Lost, AtProxy, Untouched, tabs
  <1> QED
    BY <1>1, MayFail, FailingStep

-----------------------------------------------------------------------------
(* Steps of the page *)

\* What the jar becomes with an answer is as good as what it was.
LEMMA JarStaysEarned ==
    ASSUME IInv, NEW t \in Tabs, call[t] # "idle"
    PROVE  /\ NewJar(t) \in [Services -> Tokens]
           /\ \A p \in Services : Earned(NewJar(t)[p])
           /\ \A p \in Services : NewJar(t)[p] # NoToken =>
                /\ Service[NewJar(t)[p].share] = p
                /\ \E u \in Tabs : On(u) = NewJar(t)[p].share
  <1> USE DEF IInv
  <1>1. On(t) \in Shares /\ Path(On(t)) \in Services
    BY DEF HasShare, Path
  <1>2. reply[t].cookie \in Tokens
    BY DEF TypeOK
  <1>3. CASE reply[t].cookie = NoToken
    BY <1>3 DEF NewJar, TypeOK, JarIsEarned, TokensHaveTabs
  <1>4. CASE reply[t].cookie # NoToken
    <2>1. NewJar(t) = [jar EXCEPT ![Path(On(t))] = reply[t].cookie]
      BY <1>4 DEF NewJar
    <2>2. reply[t].cookie.share = On(t) /\ Earned(reply[t].cookie)
      BY <1>4 DEF ReplyIsEarned
    <2> QED
      BY <1>1, <1>2, <2>1, <2>2 DEF TypeOK, JarIsEarned, TokensHaveTabs, Path
  <1> QED
    BY <1>3, <1>4

\* A tab starts over, on the share it has or on its first.
LEMMA LoadingStep ==
    ASSUME IInv, NEW t \in Tabs, NEW s \in Shares, NEW byUnlock \in BOOLEAN,
           Load(t, s, byUnlock), On(t) = NoShare \/ On(t) = s,
           jar' = jar \/ (jar' = NewJar(t) /\ call[t] # "idle"),
           UNCHANGED <<permit, accepted, sawPermit>>
    PROVE  IInv'
  <1> USE DEF IInv, Load
  <1>1. TypeOK'
    BY JarStaysEarned DEF TypeOK, Keep, Tokens, AtProxy
  <1>2. HasShare' /\ PromptMeansLocked' /\ TokenInHand'
    BY DEF TypeOK, HasShare, PromptMeansLocked, TokenInHand, On, Keep, Prompts
  <1>3. ReplyIsEarned' /\ ContentNeedsPassword'
    BY DEF TypeOK, ReplyIsEarned, ContentNeedsPassword, Earned, On, Keep, Layouts
  <1>4. JarIsEarned'
    BY JarStaysEarned DEF JarIsEarned, Earned
  <1>5. TokensHaveTabs'
    <2>1. \A u \in Tabs : share[u] \in Shares => share'[u] = share[u]
      BY DEF TypeOK, On
    <2>2. \A k \in Tokens : k # NoToken => k.share \in Shares
      BY DEF Tokens
    <2>3. \A p \in Services : jar'[p] # NoToken =>
            Service[jar'[p].share] = p /\ \E u \in Tabs : On(u) = jar'[p].share
      BY JarStaysEarned DEF TokensHaveTabs
    <2>4. \A u \in Tabs : sid'[u] # NoToken => u # t /\ sid'[u] = sid[u]
      BY DEF TypeOK
    <2> QED
      BY <1>1, <2>1, <2>2, <2>3, <2>4 DEF TokensHaveTabs, TypeOK, On
  <1>6. PermitWasSeen' /\ DownloadRechecked'
    BY DEF TypeOK, PermitWasSeen, DownloadRechecked, On
  <1> QED
    BY <1>1, <1>2, <1>3, <1>4, <1>5, <1>6

LEMMA OpeningStep ==
    ASSUME IInv, NEW t \in Tabs, Open(t) \/ Reload(t) \/ ReloadAfterUnlock(t)
    PROVE  IInv'
  <1>1. CASE Open(t)
    BY <1>1, LoadingStep DEF Open
  <1>2. CASE Reload(t)
    <2>1. On(t) \in Shares
      BY <1>2 DEF Reload, IInv, TypeOK, On
    <2> QED
      BY <1>2, <2>1, LoadingStep DEF Reload
  <1>3. CASE ReloadAfterUnlock(t)
    <2>1. On(t) \in Shares
      BY <1>3 DEF ReloadAfterUnlock, IInv, HasShare
    <2> QED
      BY <1>3, <2>1, LoadingStep DEF ReloadAfterUnlock
  <1> QED
    BY <1>1, <1>2, <1>3

LEMMA UnlockStep ==
    ASSUME IInv, NEW t \in Tabs, Unlock(t)
    PROVE  IInv'
  <1> USE DEF IInv, Unlock, tabs
  <1>1. TypeOK'
    BY DEF TypeOK, AtProxy
  <1>2. HasShare' /\ PromptMeansLocked' /\ TokenInHand'
    BY DEF TypeOK, HasShare, PromptMeansLocked, TokenInHand, On, Prompts
  <1>3. ReplyIsEarned' /\ JarIsEarned' /\ ContentNeedsPassword'
    BY DEF ReplyIsEarned, JarIsEarned, ContentNeedsPassword, Earned, On
  <1>4. TokensHaveTabs' /\ PermitWasSeen' /\ DownloadRechecked'
    BY DEF TypeOK, TokensHaveTabs, PermitWasSeen, DownloadRechecked, On
  <1> QED
    BY <1>1, <1>2, <1>3, <1>4

\* A call that carries the cookie of the path.
LEMMA CallingStep ==
    ASSUME IInv, NEW t \in Tabs, Navigate(t) \/ Download(t)
    PROVE  IInv'
  <1> USE DEF IInv
  <1>1. /\ On(t) \in Shares /\ call[t] = "idle"
        /\ view[t] \notin Prompts
        /\ \E to \in {"list", "download"} : call' = [call EXCEPT ![t] = to]
        /\ sid' = [sid EXCEPT ![t] = jar[Path(On(t))]]
        /\ UNCHANGED <<share, view, offers, blind, reloaded, reply, jar, permit,
                       accepted>>
    BY DEF Navigate, Download, tabs, HasShare, Listed, Prompts
  <1>2. jar[Path(On(t))] \in Tokens /\ Path(On(t)) \in Services
    BY <1>1 DEF TypeOK, Path
  <1>3. TypeOK'
    <2>1. listing' \in [Tabs -> {"none", "loading", "shown", "failed"}]
      BY DEF Navigate, Download, tabs, TypeOK
    <2>2. sawPermit' \in [Tabs -> BOOLEAN]
      <3>1. permit[On(t)] \in BOOLEAN
        BY <1>1 DEF TypeOK
      <3> QED
        BY <3>1 DEF Navigate, Download, TypeOK
    <2>3. call' \in [Tabs -> {"idle", "answered"} \cup AtProxy]
      BY <1>1 DEF TypeOK, AtProxy
    <2>4. sid' \in [Tabs -> Tokens]
      BY <1>1, <1>2 DEF TypeOK
    <2> QED
      BY <1>1, <2>1, <2>2, <2>3, <2>4 DEF TypeOK
  <1>4. HasShare' /\ PromptMeansLocked' /\ TokenInHand'
    BY <1>1 DEF TypeOK, HasShare, PromptMeansLocked, TokenInHand, On
  <1>5. ReplyIsEarned' /\ JarIsEarned' /\ ContentNeedsPassword'
    BY <1>1 DEF ReplyIsEarned, JarIsEarned, ContentNeedsPassword, Earned, On
  <1>6. TokensHaveTabs'
    BY <1>1, <1>2 DEF TypeOK, TokensHaveTabs, On, Path
  <1>7. PermitWasSeen' /\ DownloadRechecked'
    BY DEF TypeOK, PermitWasSeen, DownloadRechecked, On, Navigate, Download, tabs
  <1> QED
    BY <1>3, <1>4, <1>5, <1>6, <1>7

\* The page takes in an answer: it goes idle or asks for the listing.
LEMMA SeeingStep ==
    ASSUME IInv, NEW t \in Tabs, StartBrowsing(t) \/ Receive(t)
    PROVE  IInv'
  <1> USE DEF IInv
  <1>1. /\ call[t] = "answered" /\ jar' = NewJar(t)
        /\ view' = [view EXCEPT ![t] = NewView(t)]
        /\ reply' = [reply EXCEPT ![t] = Keep]
        /\ UNCHANGED <<share, offers, blind, reloaded, permit, accepted>>
    BY DEF StartBrowsing, Receive
  <1>2. \/ call' = [call EXCEPT ![t] = "idle"] /\ sid' = [sid EXCEPT ![t] = NoToken]
        \/ /\ call' = [call EXCEPT ![t] = "list"]
           /\ sid' = [sid EXCEPT ![t] = jar'[Path(On(t))]]
    BY DEF StartBrowsing, Receive
  <1>3. On(t) \in Shares /\ Path(On(t)) \in Services
    BY <1>1 DEF HasShare, Path
  <1>4. /\ jar' \in [Services -> Tokens]
        /\ \A p \in Services : Earned(jar'[p])
        /\ \A p \in Services : jar'[p] # NoToken =>
             Service[jar'[p].share] = p /\ \E u \in Tabs : On(u) = jar'[p].share
    BY <1>1, JarStaysEarned
  <1>5. /\ NewView(t) \in {"error"} \cup Prompts \cup Layouts \cup {view[t]}
        /\ NewView(t) \in Prompts => Locked[On(t)]
        /\ NewView(t) \in Layouts /\ Locked[On(t)] => On(t) \in accepted
    BY DEF NewView, TypeOK, PromptMeansLocked, ReplyIsEarned,
           ContentNeedsPassword, Prompts, Layouts
  <1>6. TypeOK'
    <2>1. listing' \in [Tabs -> {"none", "loading", "shown", "failed"}]
      BY DEF StartBrowsing, Receive, NewListing, TypeOK
    <2>2. sawPermit' \in [Tabs -> BOOLEAN]
      BY DEF StartBrowsing, Receive, TypeOK
    <2>3. sid' \in [Tabs -> Tokens]
      BY <1>2, <1>3, <1>4 DEF TypeOK, Tokens
    <2>4. view' \in [Tabs -> {"blank", "error"} \cup Prompts \cup Layouts]
      BY <1>1, <1>5 DEF TypeOK
    <2>5. /\ call' \in [Tabs -> {"idle", "answered"} \cup AtProxy]
          /\ reply' \in [Tabs -> [cookie : Tokens,
                                  page : {"keep", "error"} \cup Prompts \cup Layouts,
                                  rows : {"keep", "shown", "failed"}]]
      BY <1>1, <1>2 DEF TypeOK, AtProxy, Keep, Tokens
    <2> QED
      BY <1>1, <1>4, <2>1, <2>2, <2>3, <2>4, <2>5 DEF TypeOK
  <1>7. HasShare' /\ PromptMeansLocked' /\ TokenInHand'
    BY <1>1, <1>2, <1>3, <1>5
       DEF TypeOK, HasShare, PromptMeansLocked, TokenInHand, On, Keep, Prompts
  <1>8. ReplyIsEarned' /\ JarIsEarned' /\ ContentNeedsPassword'
    BY <1>1, <1>4, <1>5
       DEF TypeOK, ReplyIsEarned, JarIsEarned, ContentNeedsPassword, Earned, On,
           Keep, Layouts
  <1>9. TokensHaveTabs'
    BY <1>1, <1>2, <1>3, <1>4 DEF TypeOK, TokensHaveTabs, On, Path
  <1>10. PermitWasSeen' /\ DownloadRechecked'
    BY DEF StartBrowsing, Receive, TypeOK, PermitWasSeen, DownloadRechecked, On
  <1> QED
    BY <1>6, <1>7, <1>8, <1>9, <1>10

-----------------------------------------------------------------------------
(* Steps of the owner and of time *)

LEMMA EnvironmentStep ==
    ASSUME IInv, \/ \E s \in Shares : SetPermit(s)
                 \/ \E p \in Services : CookieExpires(p)
    PROVE  IInv'
  <1> USE DEF IInv, tabs
  <1>1. ASSUME NEW s \in Shares, SetPermit(s)
        PROVE  IInv'
    <2> USE <1>1 DEF SetPermit
    <2>1. TypeOK'
      BY DEF TypeOK
    <2>2. HasShare' /\ PromptMeansLocked' /\ TokenInHand'
      BY DEF HasShare, PromptMeansLocked, TokenInHand, On
    <2>3. ReplyIsEarned' /\ JarIsEarned' /\ ContentNeedsPassword'
      BY DEF ReplyIsEarned, JarIsEarned, ContentNeedsPassword, Earned, On
    <2>4. TokensHaveTabs' /\ DownloadRechecked'
      BY DEF TypeOK, TokensHaveTabs, DownloadRechecked, On
    <2>5. PermitWasSeen'
      BY DEF TypeOK, PermitWasSeen, On
    <2> QED
      BY <2>1, <2>2, <2>3, <2>4, <2>5
  <1>2. ASSUME NEW p \in Services, CookieExpires(p)
        PROVE  IInv'
    <2> USE <1>2 DEF CookieExpires
    <2>1. TypeOK'
      BY DEF TypeOK, Tokens
    <2>2. HasShare' /\ PromptMeansLocked' /\ TokenInHand'
      BY DEF HasShare, PromptMeansLocked, TokenInHand, On
    <2>3. ReplyIsEarned' /\ JarIsEarned' /\ ContentNeedsPassword'
      BY DEF TypeOK, ReplyIsEarned, JarIsEarned, ContentNeedsPassword, Earned, On
    <2>4. TokensHaveTabs' /\ PermitWasSeen' /\ DownloadRechecked'
      BY DEF TypeOK, TokensHaveTabs, PermitWasSeen, DownloadRechecked, On
    <2> QED
      BY <2>1, <2>2, <2>3, <2>4
  <1> QED
    BY <1>1, <1>2

-----------------------------------------------------------------------------
(* The theorems *)

\* Every step keeps the inductive invariant.
LEMMA Inductive == IInv /\ [Next]_vars => IInv'
  <1> SUFFICES ASSUME IInv, [Next]_vars PROVE IInv'
    OBVIOUS
  <1>1. CASE UNCHANGED vars
    BY <1>1 DEF vars, tabs, IInv, TypeOK, HasShare, PromptMeansLocked, TokenInHand,
       ReplyIsEarned, JarIsEarned, ContentNeedsPassword, TokensHaveTabs,
       PermitWasSeen, DownloadRechecked, Earned, On
  <1>2. ASSUME NEW t \in Tabs, User(t)
        PROVE  IInv'
    BY <1>2, OpeningStep, UnlockStep, CallingStep DEF User
  <1>3. ASSUME NEW t \in Tabs, Handle(t) \/ Fetch(t) \/ Lost(t)
        PROVE  IInv'
    BY <1>3, LandingStep, ContextStep, LoginStep, UnlockContextStep, ListStep,
       CheckDownloadStep, FetchStep, LostStep DEF Handle
  <1>4. ASSUME NEW t \in Tabs, See(t)
        PROVE  IInv'
    BY <1>4, OpeningStep, SeeingStep DEF See
  <1> QED
    BY <1>1, <1>2, <1>3, <1>4, EnvironmentStep DEF Next

\* The inductive invariant holds: where the tokens in a handler's hands, in an
\* answer and in the jar come from is known at every step of every call.
THEOREM InvariantHolds == Spec => []IInv
  BY Initially, Inductive, PTL DEF Spec

\* Every variable keeps its type.
THEOREM TypeCorrect == Spec => []TypeOK
  BY InvariantHolds, PTL DEF IInv

\* The cookie jar never holds a token of a locked share that was not issued for
\* its password, whatever the tabs do and whatever the NAS issues in between.
THEOREM JarEarned == Spec => []JarIsEarned
  BY InvariantHolds, PTL DEF IInv

\* No order of loads, reloads, unlocks and failures shows the content area of a
\* locked share before its password was accepted.
THEOREM ContentGuarded == Spec => []ContentNeedsPassword
  BY InvariantHolds, PTL DEF IInv

\* A call that carries the token of another share got it from another tab of
\* the same service.
THEOREM CollisionsExplained == Spec => []CollisionNeedsSibling
  <1>1. IInv => CollisionNeedsSibling
    BY DEF IInv, TokensHaveTabs, CollisionNeedsSibling
  <1> QED
    BY <1>1, InvariantHolds, PTL

\* A download of a photo or Drive share goes to the NAS only if it was permitted
\* at some moment since it was asked for.
THEOREM DownloadsRechecked == Spec => []DownloadRechecked
  BY InvariantHolds, PTL DEF IInv

-----------------------------------------------------------------------------
(* The layout of the page *)

\* A step that shows no new layout on t, and puts none in its answer, unless
\* it is the one of the share; blind is cleared behind a prompt only.
LEMMA LayoutStays ==
    ASSUME IInv, LayoutInv, NEW t \in Tabs,
           share' = share,
           NEW v, view' = [view EXCEPT ![t] = v],
           NEW r, reply' = [reply EXCEPT ![t] = r],
           NEW w, call' = [call EXCEPT ![t] = w],
           NEW b \in BOOLEAN, blind' = [blind EXCEPT ![t] = b],
           v \in Layouts /\ ~b => v = Kind[On(t)],
           r.page \in Layouts /\ ~b => r.page = Kind[On(t)],
           "uploadPrompt" \in {v, r.page} => Kind[On(t)] = "upload",
           w \in {"unlock", "logged"} => v \in Prompts
    PROVE  LayoutInv'
  <1>1. \A u \in Tabs :
           /\ view'[u] = IF u = t THEN v ELSE view[u]
           /\ reply'[u] = IF u = t THEN r ELSE reply[u]
           /\ call'[u] = IF u = t THEN w ELSE call[u]
           /\ blind'[u] = IF u = t THEN b ELSE blind[u]
           /\ share'[u] = share[u]
    BY DEF IInv, TypeOK
  <1>2. LayoutIsKnown'
    BY <1>1 DEF LayoutInv, LayoutIsKnown, On
  <1>3. \A u \in Tabs : reply'[u].page \in Layouts /\ ~blind'[u] =>
           reply'[u].page = Kind[On(u)']
    BY <1>1 DEF LayoutInv, On
  <1>4. \A u \in Tabs : "uploadPrompt" \in {view'[u], reply'[u].page} =>
           Kind[On(u)'] = "upload"
    BY <1>1 DEF LayoutInv, On
  <1>5. \A u \in Tabs : call'[u] \in {"unlock", "logged"} => view'[u] \in Prompts
    BY <1>1 DEF LayoutInv
  <1> QED
    BY <1>2, <1>3, <1>4, <1>5 DEF LayoutInv

\* A step that leaves the page of t and goes from call to call, not to unlock.
LEMMA CallMoves ==
    ASSUME IInv, LayoutInv, NEW t \in Tabs,
           NEW w, call' = [call EXCEPT ![t] = w],
           w = "unlock" => view[t] \in Prompts,
           w = "logged" => call[t] = "unlock",
           UNCHANGED <<share, view, reply, blind>>
    PROVE  LayoutInv'
  <1>1. /\ view' = [view EXCEPT ![t] = view[t]]
        /\ reply' = [reply EXCEPT ![t] = reply[t]]
        /\ blind' = [blind EXCEPT ![t] = blind[t]] /\ blind[t] \in BOOLEAN
    BY DEF IInv, TypeOK
  <1>2. w \in {"unlock", "logged"} => view[t] \in Prompts
    BY DEF LayoutInv
  <1>3. /\ view[t] \in Layouts /\ ~blind[t] => view[t] = Kind[On(t)]
        /\ reply[t].page \in Layouts /\ ~blind[t] => reply[t].page = Kind[On(t)]
        /\ "uploadPrompt" \in {view[t], reply[t].page} => Kind[On(t)] = "upload"
    BY DEF LayoutInv, LayoutIsKnown
  <1>4. share' = share
    OBVIOUS
  <1> QED
    BY <1>1, <1>2, <1>3, <1>4, LayoutStays

\* An answer that carries no layout but that of the share, or carries one while
\* blind is set behind a prompt.
LEMMA AnswerFits ==
    ASSUME IInv, LayoutInv, NEW t \in Tabs, NEW cookie, NEW page, NEW rows,
           Answer(t, cookie, page, rows),
           NEW b \in BOOLEAN, blind' = [blind EXCEPT ![t] = b],
           b = blind[t] \/ view[t] \notin Layouts,
           page \in Layouts /\ ~b => page = Kind[On(t)],
           page = "uploadPrompt" => Kind[On(t)] = "upload",
           UNCHANGED <<share, view>>
    PROVE  LayoutInv'
  <1> DEFINE r == [cookie |-> cookie, page |-> page, rows |-> rows]
  <1>1. /\ view' = [view EXCEPT ![t] = view[t]]
        /\ reply' = [reply EXCEPT ![t] = r]
        /\ call' = [call EXCEPT ![t] = "answered"]
        /\ r.page = page
    BY DEF IInv, TypeOK, Answer
  <1>2. view[t] \in Layouts /\ ~b => view[t] = Kind[On(t)]
    BY DEF LayoutInv, LayoutIsKnown
  <1>3. view[t] = "uploadPrompt" => Kind[On(t)] = "upload"
    BY DEF LayoutInv
  <1>4. "uploadPrompt" \in {view[t], r.page} => Kind[On(t)] = "upload"
    BY <1>1, <1>3
  <1>5. /\ r.page \in Layouts /\ ~b => r.page = Kind[On(t)]
        /\ "answered" \notin {"unlock", "logged"} /\ share' = share
    BY <1>1
  <1> HIDE DEF r
  <1> QED
    BY <1>1, <1>2, <1>4, <1>5, LayoutStays

\* An error shows no layout.
LEMMA FailFits ==
    ASSUME IInv, LayoutInv, NEW t \in Tabs, NEW cookie, Fail(t, cookie),
           UNCHANGED <<share, view, blind>>
    PROVE  LayoutInv'
  <1>0. PICK page \in {"error", "keep"} : \E r : Answer(t, cookie, page, r)
    BY DEF Fail
  <1>1. PICK rows : Answer(t, cookie, page, rows)
    BY <1>0
  <1>2. blind' = [blind EXCEPT ![t] = blind[t]] /\ blind[t] \in BOOLEAN
    BY DEF IInv, TypeOK
  <1>3. page \notin Layouts /\ page # "uploadPrompt"
    BY DEF Layouts
  <1> QED
    BY <1>1, <1>2, <1>3, AnswerFits

LEMMA HandlerFits ==
    ASSUME IInv, LayoutInv, NEW t \in Tabs, Handle(t) \/ Fetch(t) \/ Lost(t)
    PROVE  LayoutInv'
  <1>b. blind = [blind EXCEPT ![t] = blind[t]] /\ blind[t] \in BOOLEAN
    BY DEF IInv, TypeOK
  <1>1. CASE Landing(t)
    <2>1. CASE Service[On(t)] = "photo" /\ Locked[On(t)] /\
               Answer(t, NoToken, "browsePrompt", "keep")
      BY <1>1, <1>b, <2>1, AnswerFits DEF Landing, Layouts
    <2>2. CASE call' = [call EXCEPT ![t] = "landed"] /\ UNCHANGED reply
      BY <1>1, <2>2, CallMoves DEF Landing
    <2>3. CASE Fail(t, NoToken)
      BY <1>1, <2>3, FailFits DEF Landing
    <2> QED
      BY <1>1, <2>1, <2>2, <2>3 DEF Landing
  <1>2. CASE Context(t)
    <2>1. UNCHANGED <<share, view, blind>>
      BY <1>2 DEF Context
    <2>2. ASSUME NEW cookie, Fail(t, cookie)
          PROVE  LayoutInv'
      BY <2>1, <2>2, FailFits
    <2>3. CASE Prompt(t)
      <3>1. PICK p \in PromptsFor(t) : Answer(t, NoToken, p, "keep")
        BY <2>3 DEF Prompt
      <3>2. p \notin Layouts /\ (p = "uploadPrompt" => Kind[On(t)] = "upload")
        BY <3>1 DEF PromptsFor, Prompts, Layouts
      <3> QED
        BY <1>b, <2>1, <3>1, <3>2, AnswerFits
    <2>4. CASE Answer(t, sid[t], Kind[On(t)], "keep")
      <3>1. On(t) \in Shares
        BY <1>2 DEF Context, IInv, HasShare
      <3>2. Kind[On(t)] # "uploadPrompt"
        BY <3>1 DEF Layouts
      <3> QED
        BY <1>b, <2>1, <2>4, <3>2, AnswerFits
    <2> QED
      BY <1>2, <2>2, <2>3, <2>4 DEF Context
  <1>3. CASE Login(t)
    <2>1. CASE Fail(t, NoToken)
      BY <1>3, <2>1, FailFits DEF Login, tabs
    <2>2. CASE call' = [call EXCEPT ![t] = "logged"] /\ UNCHANGED reply
      BY <1>3, <2>2, CallMoves DEF Login, tabs
    <2> QED
      BY <1>3, <2>1, <2>2 DEF Login
  <1>4. CASE UnlockContext(t)
    <2>1. /\ view[t] \in Prompts /\ view[t] \notin Layouts
          /\ On(t) \in Shares /\ UNCHANGED <<share, view>>
      BY <1>4 DEF UnlockContext, LayoutInv, IInv, HasShare, Prompts, Layouts
    <2>2. PICK known \in BOOLEAN :
             /\ Answer(t, sid[t],
                       IF known \/ Service[On(t)] = "photo" THEN UnlockedLayout(t)
                       ELSE "file", "keep")
             /\ blind' = [blind EXCEPT ![t] = ~known]
      BY <1>4 DEF UnlockContext
    <2> DEFINE p == IF known \/ Service[On(t)] = "photo" THEN UnlockedLayout(t)
                    ELSE "file"
    <2>3. known => p = Kind[On(t)]
      BY DEF UnlockedLayout
    <2>4. p # "uploadPrompt"
      BY <2>1 DEF UnlockedLayout, Layouts
    <2>5. Answer(t, sid[t], p, "keep")
      BY <2>2
    <2> HIDE DEF p
    <2>6. p \in Layouts /\ known => p = Kind[On(t)]
      BY <2>3
    <2> QED
      BY <2>1, <2>2, <2>4, <2>5, <2>6, AnswerFits
  <1>5. CASE List(t)
    <2>1. CASE Fail(t, NoToken)
      BY <1>5, <2>1, FailFits DEF List, tabs
    <2>2. CASE Answer(t, NoToken, "keep", "shown")
      BY <1>5, <1>b, <2>2, AnswerFits DEF List, tabs, Layouts
    <2> QED
      BY <1>5, <2>1, <2>2 DEF List
  <1>6. CASE CheckDownload(t)
    <2>1. CASE Fail(t, NoToken)
      BY <1>6, <2>1, FailFits DEF CheckDownload, tabs
    <2>2. CASE call' = [call EXCEPT ![t] = "checked"] /\ UNCHANGED reply
      BY <1>6, <2>2, CallMoves DEF CheckDownload, tabs
    <2> QED
      BY <1>6, <2>1, <2>2 DEF CheckDownload
  <1>7. CASE Fetch(t)
    BY <1>7, <1>b, AnswerFits DEF Fetch, tabs, Layouts
  <1>8. CASE Lost(t)
    BY <1>8, FailFits DEF Lost, tabs
  <1> QED
    BY <1>1, <1>2, <1>3, <1>4, <1>5, <1>6, <1>7, <1>8 DEF Handle

\* A page that is loading shows nothing and waits for nothing that was sent.
LEMMA LoadFits ==
    ASSUME IInv, LayoutInv, NEW t \in Tabs, NEW s, NEW byUnlock,
           Load(t, s, byUnlock)
    PROVE  LayoutInv'
  <1>1. \A u \in Tabs :
           /\ u = t => /\ view'[u] = "blank" /\ reply'[u].page = "keep"
                       /\ call'[u] = "page"
           /\ u # t => /\ view'[u] = view[u] /\ reply'[u] = reply[u]
                       /\ call'[u] = call[u] /\ blind'[u] = blind[u]
                       /\ share'[u] = share[u]
    BY DEF Load, IInv, TypeOK, Keep
  <1> QED
    BY <1>1 DEF LayoutInv, LayoutIsKnown, On, Layouts

LEMMA UserFits ==
    ASSUME IInv, LayoutInv, NEW t \in Tabs, User(t)
    PROVE  LayoutInv'
  <1>1. CASE Open(t)
    BY <1>1, LoadFits DEF Open
  <1>2. CASE Reload(t)
    BY <1>2, LoadFits DEF Reload
  <1>3. CASE Unlock(t)
    BY <1>3, CallMoves DEF Unlock, tabs
  <1>4. CASE Navigate(t)
    BY <1>4, CallMoves DEF Navigate
  <1>5. CASE Download(t)
    BY <1>5, CallMoves DEF Download, tabs
  <1> QED
    BY <1>1, <1>2, <1>3, <1>4, <1>5 DEF User

LEMMA SeeFits ==
    ASSUME IInv, LayoutInv, NEW t \in Tabs, See(t)
    PROVE  LayoutInv'
  <1>1. CASE ReloadAfterUnlock(t)
    BY <1>1, LoadFits DEF ReloadAfterUnlock
  <1>2. CASE StartBrowsing(t) \/ Receive(t)
    <2>1. PICK w \in {"idle", "list"} : call' = [call EXCEPT ![t] = w]
      BY <1>2 DEF StartBrowsing, Receive
    <2>2. /\ share' = share /\ blind' = blind
          /\ view' = [view EXCEPT ![t] = NewView(t)]
          /\ reply' = [reply EXCEPT ![t] = Keep]
          /\ Keep.page = "keep"
      BY <1>2 DEF StartBrowsing, Receive, Keep
    <2>3. NewView(t) \in Layouts /\ ~blind[t] => NewView(t) = Kind[On(t)]
      BY DEF NewView, LayoutInv, LayoutIsKnown
    <2>4. NewView(t) = "uploadPrompt" => Kind[On(t)] = "upload"
      BY DEF NewView, LayoutInv
    <2>5. blind' = [blind EXCEPT ![t] = blind[t]] /\ blind[t] \in BOOLEAN
      BY <2>2 DEF IInv, TypeOK
    <2>6. Keep.page \notin Layouts /\
          ("uploadPrompt" \in {NewView(t), Keep.page} => Kind[On(t)] = "upload")
      BY <2>2, <2>4 DEF Layouts
    <2> QED
      BY <2>1, <2>2, <2>3, <2>5, <2>6, LayoutStays
  <1> QED
    BY <1>1, <1>2 DEF See

LEMMA LayoutInvKept ==
    ASSUME IInv, LayoutInv, [Next]_vars
    PROVE  LayoutInv'
  <1>1. CASE UNCHANGED <<share, view, reply, call, blind>>
    BY <1>1 DEF LayoutInv, LayoutIsKnown, On
  <1> QED
    BY <1>1, UserFits, HandlerFits, SeeFits DEF Next, SetPermit, CookieExpires,
       vars, tabs

\* A page shows the layout of the item that is shared, through prompts, unlocks,
\* reloads and lost answers, except after an unlock that was answered without
\* the share's properties.
THEOREM LayoutsKnown == Spec => []LayoutIsKnown
  <1>1. Init => LayoutInv
    BY DEF Init, LayoutInv, LayoutIsKnown, Layouts, Keep
  <1>2. LayoutInv => LayoutIsKnown
    BY DEF LayoutInv
  <1> QED
    BY <1>1, <1>2, InvariantHolds, LayoutInvKept, PTL DEF Spec
=============================================================================
