----------------------------- MODULE ShareVisit -----------------------------
(***************************************************************************)
(* Visiting shares: the landing, unlock, list and download handlers of the *)
(* three services (sharing, photo, drive), the pages that call them and    *)
(* the browser's cookie jar between them.                                  *)
(*                                                                         *)
(* The proxy keeps no session.  A landing page or an unlock hands the      *)
(* token the NAS issued to the browser, in a cookie called sid whose path  *)
(* is that of the service; every later call reads it back.  All tabs of    *)
(* one browser share the jar.  Whether a share may be downloaded is asked  *)
(* of the NAS for every download.                                          *)
(*                                                                         *)
(* A tab has at most one request outstanding, and call[t] says where it    *)
(* is: at the proxy, between the NAS calls of its handler, or answered and *)
(* not yet seen by the page.  Uploads and the ordering of listings within  *)
(* a tab are not part of this module.                                      *)
(***************************************************************************)
EXTENDS Naturals

CONSTANTS
    Tabs,       \* the tabs of one browser
    Shares,     \* shares of the three services
    NoShare,    \* what a tab shows that was not opened yet
    Service,    \* Service[s]: "sharing", "photo" or "drive"
    Kind,       \* Kind[s]: the layout that fits the shared item
    Locked      \* Locked[s]: the share has a password

Services == {"sharing", "photo", "drive"}
Layouts  == {"file", "folder", "gallery", "upload"}
Listed   == {"folder", "gallery"}
Prompts  == {"browsePrompt", "uploadPrompt"}

KindsOf == [sharing |-> {"file", "folder", "upload"},
            photo   |-> {"gallery", "upload"},
            drive   |-> {"file", "folder"}]

ASSUME NoShareAssumption == NoShare \notin Shares
ASSUME ServiceAssumption == Service \in [Shares -> Services]
ASSUME KindAssumption ==
    /\ Kind \in [Shares -> Layouts]
    /\ \A s \in Shares : Kind[s] \in KindsOf[Service[s]]

\* A photo request never has a password.
ASSUME LockedAssumption ==
    /\ Locked \in [Shares -> BOOLEAN]
    /\ \A s \in Shares : Service[s] = "photo" /\ Kind[s] = "upload" => ~Locked[s]

\* A token of the NAS: for which share, and what it was issued upon.
Grades  == {"open", "password", "anonymous"}
NoToken == [share |-> NoShare, grade |-> "none"]
Token(s, g) == [share |-> s, grade |-> g]
Tokens  == [share : Shares, grade : Grades] \cup {NoToken}

VARIABLES
    (* the tabs *)
    share,      \* share[t]: the share whose page t shows
    view,       \* view[t]: what of the page is shown
    listing,    \* listing[t]: "none", "loading", "shown" or "failed"
    offers,     \* offers[t]: canDownload as the page has it
    call,       \* call[t]: where the outstanding request is
    sid,        \* sid[t]: the token its handler has in hand
    reply,      \* reply[t]: [cookie, page, rows], what the answer changes
    (* the browser and the NAS *)
    jar,        \* jar[p]: the cookie sid of path p, NoToken if there is none
    permit,     \* permit[s]: the owner allows downloads
    (* history *)
    accepted,   \* locked shares whose password the NAS accepted
    sawPermit,  \* permit was TRUE at some time since the download was asked
    blind,      \* the unlock was answered without the share's properties
    reloaded    \* the page was loaded by the reload after an unlock

tabs == <<share, view, listing, offers, blind, reloaded>>
vars == <<tabs, call, sid, reply, jar, permit, accepted, sawPermit>>

AtProxy == {"page", "landed", "unlock", "logged", "list", "download", "checked"}
Keep == [cookie |-> NoToken, page |-> "keep", rows |-> "keep"]

TypeOK ==
    /\ share \in [Tabs -> Shares \cup {NoShare}]
    /\ view \in [Tabs -> {"blank", "error"} \cup Prompts \cup Layouts]
    /\ listing \in [Tabs -> {"none", "loading", "shown", "failed"}]
    /\ offers \in [Tabs -> BOOLEAN]
    /\ call \in [Tabs -> {"idle", "answered"} \cup AtProxy]
    /\ sid \in [Tabs -> Tokens]
    /\ reply \in [Tabs -> [cookie : Tokens,
                           page : {"keep", "error"} \cup Prompts \cup Layouts,
                           rows : {"keep", "shown", "failed"}]]
    /\ jar \in [Services -> Tokens]
    /\ permit \in [Shares -> BOOLEAN]
    /\ accepted \subseteq Shares
    /\ sawPermit \in [Tabs -> BOOLEAN]
    /\ blind \in [Tabs -> BOOLEAN] /\ reloaded \in [Tabs -> BOOLEAN]

Init ==
    /\ share = [t \in Tabs |-> NoShare]
    /\ view = [t \in Tabs |-> "blank"]
    /\ listing = [t \in Tabs |-> "none"]
    /\ offers = [t \in Tabs |-> FALSE]
    /\ call = [t \in Tabs |-> "idle"]
    /\ sid = [t \in Tabs |-> NoToken]
    /\ reply = [t \in Tabs |-> Keep]
    /\ jar = [p \in Services |-> NoToken]
    /\ permit = [s \in Shares |-> TRUE]
    /\ accepted = {}
    /\ sawPermit = [t \in Tabs |-> FALSE]
    /\ blind = [t \in Tabs |-> FALSE]
    /\ reloaded = [t \in Tabs |-> FALSE]

On(t) == share[t]

\* Mutated form: one cookie for the whole site.
Path_Root(s) == "sharing"

\* The Path attribute of the cookie that belongs to the service of share s.
Path(s) == Service[s]

\* The answer is on its way: the cookie it sets, what of the page it replaces
\* and what it puts in the table.
Answer(t, cookie, page, rows) ==
    /\ call' = [call EXCEPT ![t] = "answered"]
    /\ reply' = [reply EXCEPT ![t] = [cookie |-> cookie, page |-> page,
                                      rows |-> rows]]

\* An error: a page that was loading becomes the error page, a table that was
\* loading shows the message; the unlock prompt and a download leave the page
\* as it is.
Fail(t, cookie) ==
    Answer(t, cookie, IF view[t] = "blank" THEN "error" ELSE "keep",
                      IF listing[t] = "loading" THEN "failed" ELSE "keep")

-----------------------------------------------------------------------------
(* Loading a page                                                          *)

\* The browser asks for the page of share s.  The cookie's path is under
\* /api, so no token goes with it.
Load(t, s, byUnlock) ==
    /\ share' = [share EXCEPT ![t] = s]
    /\ view' = [view EXCEPT ![t] = "blank"]
    /\ listing' = [listing EXCEPT ![t] = "none"]
    /\ blind' = [blind EXCEPT ![t] = FALSE]
    /\ reloaded' = [reloaded EXCEPT ![t] = byUnlock]
    /\ call' = [call EXCEPT ![t] = "page"]
    /\ sid' = [sid EXCEPT ![t] = NoToken]
    /\ reply' = [reply EXCEPT ![t] = Keep]
    /\ UNCHANGED offers

Open(t) ==
    /\ call[t] = "idle" /\ On(t) = NoShare
    /\ \E s \in Shares : Load(t, s, FALSE)
    /\ UNCHANGED <<jar, permit, accepted, sawPermit>>

Reload(t) ==
    /\ call[t] = "idle" /\ On(t) # NoShare
    /\ Load(t, On(t), FALSE)
    /\ UNCHANGED <<jar, permit, accepted, sawPermit>>

\* What the NAS issues with its landing page.
LandingTokens(s) ==
    IF Locked[s] THEN {NoToken, Token(s, "anonymous")} ELSE {Token(s, "open")}

\* FetchSID, FetchLanding, fetchBrowseLandingCookie.  The landing page of a
\* photo share says all the handler wants to know of a locked album, its
\* privacy type included.
Landing(t) ==
    /\ call[t] = "page"
    /\ \/ Fail(t, NoToken) /\ UNCHANGED <<sid, offers>>
       \/ \E k \in LandingTokens(On(t)) :
            /\ sid' = [sid EXCEPT ![t] = k]
            /\ offers' = [offers EXCEPT ![t] = Service[On(t)] = "photo"
                                                  /\ permit[On(t)]]
            /\ IF Service[On(t)] = "photo" /\ Locked[On(t)]
               THEN Answer(t, NoToken, "browsePrompt", "keep")
               ELSE call' = [call EXCEPT ![t] = "landed"] /\ UNCHANGED reply
    /\ UNCHANGED <<share, view, listing, blind, reloaded, jar, permit, accepted,
                   sawPermit>>

\* Mutated form: the share is locked if the NAS issued no token.
AsksPassword_NoToken(t) == sid[t] = NoToken

\* sharing_status "password", error code 1037.
AsksPassword(t) == Locked[On(t)]

\* The template a locked share is rendered with.  The session API tells an
\* upload share before authentication, unless its answer cannot be parsed.
PromptsFor(t) ==
    IF Kind[On(t)] = "upload" THEN Prompts ELSE {"browsePrompt"}

\* Mutated form: the cookie is set before the handler looks at the status.
Prompt_WithCookie(t) ==
    \E p \in PromptsFor(t) : Answer(t, sid[t], p, "keep")

\* The password form, without a cookie.
Prompt(t) == \E p \in PromptsFor(t) : Answer(t, NoToken, p, "keep")

\* The second NAS call of the landing page: session API, bootstrap script,
\* album information.  The photo handler has set the cookie before it.
Context(t) ==
    /\ call[t] = "landed"
    /\ \/ /\ Fail(t, IF Service[On(t)] = "photo" THEN sid[t] ELSE NoToken)
          /\ UNCHANGED offers
       \/ /\ AsksPassword(t)
          /\ Prompt(t)
          /\ UNCHANGED offers
       \/ /\ ~AsksPassword(t)
          /\ Answer(t, sid[t], Kind[On(t)], "keep")
          /\ offers' = IF Service[On(t)] = "drive"
                       THEN [offers EXCEPT ![t] = permit[On(t)]] ELSE offers
    /\ UNCHANGED <<share, view, listing, blind, reloaded, sid, jar, permit,
                   accepted, sawPermit>>

-----------------------------------------------------------------------------
(* Unlocking                                                               *)

\* The user submits a password.
Unlock(t) ==
    /\ call[t] = "idle" /\ view[t] \in Prompts
    /\ call' = [call EXCEPT ![t] = "unlock"]
    /\ UNCHANGED <<tabs, sid, reply, jar, permit, accepted, sawPermit>>

\* LoginWithPassword, AuthBrowsePassword: wrong, failed, or a token.
Login(t) ==
    /\ call[t] = "unlock"
    /\ \/ Fail(t, NoToken) /\ UNCHANGED <<sid, accepted>>
       \/ /\ call' = [call EXCEPT ![t] = "logged"]
          /\ sid' = [sid EXCEPT ![t] = Token(On(t), "password")]
          /\ accepted' = accepted \cup {On(t)}
          /\ UNCHANGED reply
    /\ UNCHANGED <<tabs, jar, permit, sawPermit>>

\* Mutated form: the answer leaves isFolder out.
UnlockedLayout_File(t) == IF Kind[On(t)] = "folder" THEN "file" ELSE Kind[On(t)]

\* The layout the answer's isUpload and isFolder amount to.
UnlockedLayout(t) == Kind[On(t)]

\* The cookie is set; then the properties of the share are fetched for the
\* page.  Without them the answer is a bare success, which the file pages read
\* as a single file that may not be downloaded; the gallery needs none.
UnlockContext(t) ==
    /\ call[t] = "logged"
    /\ \E known \in BOOLEAN :
          /\ Answer(t, sid[t],
                    IF known \/ Service[On(t)] = "photo" THEN UnlockedLayout(t)
                    ELSE "file", "keep")
          /\ blind' = [blind EXCEPT ![t] = ~known]
          /\ offers' = IF Service[On(t)] = "drive"
                       THEN [offers EXCEPT ![t] = known /\ permit[On(t)]]
                       ELSE offers
    /\ UNCHANGED <<share, view, listing, reloaded, sid, jar, permit, accepted,
                   sawPermit>>

-----------------------------------------------------------------------------
(* Listing and downloading                                                 *)

\* The user opens a folder or scrolls; the cookie of the path goes along.
Navigate(t) ==
    /\ call[t] = "idle" /\ view[t] \in Listed
    /\ listing' = [listing EXCEPT ![t] = "loading"]
    /\ call' = [call EXCEPT ![t] = "list"]
    /\ sid' = [sid EXCEPT ![t] = jar[Path(On(t))]]
    /\ UNCHANGED <<share, view, offers, blind, reloaded, reply, jar, permit,
                   accepted, sawPermit>>

\* The NAS accepts the token for the share the request names.
Honoured(t) == sid[t].share = On(t) /\ sid[t].grade # "anonymous"

List(t) ==
    /\ call[t] = "list"
    /\ \/ Fail(t, NoToken)
       \/ Honoured(t) /\ Answer(t, NoToken, "keep", "shown")
    /\ UNCHANGED <<tabs, sid, jar, permit, accepted, sawPermit>>

\* A download link.  The gallery's play button is there even when downloads
\* are not offered.
Download(t) ==
    /\ call[t] = "idle" /\ view[t] \in {"file", "folder", "gallery"}
    /\ Service[On(t)] = "drive" => offers[t]
    /\ call' = [call EXCEPT ![t] = "download"]
    /\ sid' = [sid EXCEPT ![t] = jar[Path(On(t))]]
    /\ sawPermit' = [sawPermit EXCEPT ![t] = permit[On(t)]]
    /\ UNCHANGED <<tabs, reply, jar, permit, accepted>>

\* Mutated form: what the page was told when it was rendered is believed.
MayDownload_Rendered(t) == offers[t]

\* The check a handler makes before it forwards a download: the context of
\* the share (file sharing), its landing page, which needs no session
\* (photos), the capabilities of its root (drive).
MayDownload(t) ==
    CASE Service[On(t)] = "sharing" -> Honoured(t)
      [] Service[On(t)] = "photo"   -> permit[On(t)]
      [] Service[On(t)] = "drive"   -> Honoured(t) /\ permit[On(t)]

CheckDownload(t) ==
    /\ call[t] = "download"
    /\ \/ Fail(t, NoToken)
       \/ /\ sid[t] # NoToken
          /\ MayDownload(t)
          /\ call' = [call EXCEPT ![t] = "checked"]
          /\ UNCHANGED reply
    /\ UNCHANGED <<tabs, sid, jar, permit, accepted, sawPermit>>

\* The NAS is asked for the content, and sends it or refuses.
Fetch(t) ==
    /\ call[t] = "checked"
    /\ Answer(t, NoToken, "keep", "keep")
    /\ UNCHANGED <<tabs, sid, jar, permit, accepted, sawPermit>>

-----------------------------------------------------------------------------
(* The answer reaches the page                                             *)

\* The connection breaks, the handler's 45 s pass, or the proxy restarts.
Lost(t) ==
    /\ call[t] \in AtProxy \cup {"answered"}
    /\ Fail(t, NoToken)
    /\ UNCHANGED <<tabs, sid, jar, permit, accepted, sawPermit>>

\* The jar after the Set-Cookie of the answer.
NewJar(t) ==
    IF reply[t].cookie = NoToken THEN jar
    ELSE [jar EXCEPT ![Path(On(t))] = reply[t].cookie]

\* The browse page has learnt that it is an upload share, which only the
\* server can render.
NeedsReload(t) == view[t] = "browsePrompt" /\ reply[t].page = "upload"

\* The upload page shows its upload section whatever the answer says.
NewView(t) ==
    IF view[t] = "uploadPrompt" /\ reply[t].page \in Layouts THEN "upload"
    ELSE IF reply[t].page = "keep" THEN view[t] ELSE reply[t].page

ReloadAfterUnlock(t) ==
    /\ call[t] = "answered" /\ NeedsReload(t)
    /\ jar' = NewJar(t)
    /\ Load(t, On(t), TRUE)
    /\ UNCHANGED <<permit, accepted, sawPermit>>

\* A folder or a gallery that appears asks for its listing at once.
StartBrowsing(t) ==
    /\ call[t] = "answered" /\ ~NeedsReload(t)
    /\ reply[t].page # "keep" /\ NewView(t) \in Listed
    /\ jar' = NewJar(t)
    /\ view' = [view EXCEPT ![t] = NewView(t)]
    /\ listing' = [listing EXCEPT ![t] = "loading"]
    /\ call' = [call EXCEPT ![t] = "list"]
    /\ sid' = [sid EXCEPT ![t] = jar'[Path(On(t))]]
    /\ reply' = [reply EXCEPT ![t] = Keep]
    /\ UNCHANGED <<share, offers, blind, reloaded, permit, accepted, sawPermit>>

NewListing(t) == IF reply[t].rows = "keep" THEN listing[t] ELSE reply[t].rows

Receive(t) ==
    /\ call[t] = "answered" /\ ~NeedsReload(t)
    /\ reply[t].page = "keep" \/ NewView(t) \notin Listed
    /\ jar' = NewJar(t)
    /\ view' = [view EXCEPT ![t] = NewView(t)]
    /\ listing' = [listing EXCEPT ![t] = NewListing(t)]
    /\ call' = [call EXCEPT ![t] = "idle"]
    /\ sid' = [sid EXCEPT ![t] = NoToken]
    /\ reply' = [reply EXCEPT ![t] = Keep]
    /\ sawPermit' = [sawPermit EXCEPT ![t] = FALSE]
    /\ UNCHANGED <<share, offers, blind, reloaded, permit, accepted>>

-----------------------------------------------------------------------------
(* The owner of the shares and the age of cookies                          *)

\* The owner of a photo or Drive share allows or forbids downloads.
SetPermit(s) ==
    /\ Service[s] # "sharing" /\ Kind[s] # "upload"
    /\ permit' = [permit EXCEPT ![s] = ~permit[s]]
    /\ sawPermit' = [t \in Tabs |->
         sawPermit[t] \/ (call[t] = "download" /\ On(t) = s /\ permit'[s])]
    /\ UNCHANGED <<tabs, call, sid, reply, jar, accepted>>

\* MaxAge or Expires of a cookie passes.
CookieExpires(p) ==
    /\ jar[p] # NoToken
    /\ jar' = [jar EXCEPT ![p] = NoToken]
    /\ UNCHANGED <<tabs, call, sid, reply, permit, accepted, sawPermit>>

-----------------------------------------------------------------------------
Handle(t) ==
    Landing(t) \/ Context(t) \/ Login(t) \/ UnlockContext(t) \/ List(t)
        \/ CheckDownload(t)

See(t) == ReloadAfterUnlock(t) \/ StartBrowsing(t) \/ Receive(t)

User(t) == Open(t) \/ Reload(t) \/ Unlock(t) \/ Navigate(t) \/ Download(t)

Next ==
    \/ \E t \in Tabs : User(t) \/ Handle(t) \/ Fetch(t) \/ Lost(t) \/ See(t)
    \/ \E s \in Shares : SetPermit(s)
    \/ \E p \in Services : CookieExpires(p)

Spec == Init /\ [][Next]_vars

-----------------------------------------------------------------------------
(* Properties                                                              *)

\* A token that was issued for a share without a password, or for the right one.
Earned(k) ==
    k # NoToken =>
        IF Locked[k.share] THEN k.grade = "password" /\ k.share \in accepted
                           ELSE k.grade = "open"

\* The tokens in the jar are earned.  The NAS may issue tokens with the landing
\* page of a locked share; no handler passes such a token on.
JarIsEarned == \A p \in Services : Earned(jar[p])

\* The content areas of a locked share stay hidden until its password was
\* accepted, in whatever order pages load, reload and unlock.
ContentNeedsPassword ==
    \A t \in Tabs : view[t] \in Layouts /\ Locked[On(t)] => On(t) \in accepted

\* Flows of different services cannot collide: a call that carries the token
\* of another share shares its service with another tab that was opened on
\* that share.
CollisionNeedsSibling ==
    \A t \in Tabs : sid[t] # NoToken /\ sid[t].share # On(t) =>
        \E u \in Tabs \ {t} : /\ On(u) = sid[t].share
                              /\ Service[On(u)] = Service[On(t)]

\* A download goes out to the NAS only if it was permitted at some moment
\* between the request and the call: neither the page's belief nor an earlier
\* check counts.
DownloadRechecked ==
    \A t \in Tabs : call[t] = "checked" /\ Service[On(t)] # "sharing" =>
        sawPermit[t]

\* The parts of the inductive invariant.
HasShare ==
    \A t \in Tabs : call[t] # "idle" \/ view[t] # "blank" => On(t) \in Shares

PromptMeansLocked ==
    \A t \in Tabs :
        (view[t] \in Prompts \/ reply[t].page \in Prompts
            \/ call[t] \in {"unlock", "logged"}) => Locked[On(t)]

TokenInHand ==
    \A t \in Tabs :
        /\ call[t] = "landed" => /\ sid[t] \in LandingTokens(On(t))
                                 /\ Service[On(t)] = "photo" => ~Locked[On(t)]
        /\ call[t] = "logged" => /\ sid[t] = Token(On(t), "password")
                                 /\ On(t) \in accepted

ReplyIsEarned ==
    \A t \in Tabs :
        /\ reply[t].cookie # NoToken => reply[t].cookie.share = On(t)
        /\ Earned(reply[t].cookie)
        /\ reply[t].page \in Layouts /\ Locked[On(t)] => On(t) \in accepted

TokensHaveTabs ==
    /\ \A p \in Services : jar[p] # NoToken =>
          Service[jar[p].share] = p /\ \E u \in Tabs : On(u) = jar[p].share
    /\ \A t \in Tabs : sid[t] # NoToken =>
          /\ Service[sid[t].share] = Service[On(t)]
          /\ \E u \in Tabs : On(u) = sid[t].share

PermitWasSeen ==
    \A t \in Tabs : call[t] = "download" /\ permit[On(t)] => sawPermit[t]

\* The inductive invariant: where a token in a handler's hands, in an answer or
\* in the jar comes from, and what the page may hold at each point of a call.
IInv ==
    /\ TypeOK /\ HasShare /\ PromptMeansLocked /\ TokenInHand /\ ReplyIsEarned
    /\ JarIsEarned /\ ContentNeedsPassword /\ TokensHaveTabs /\ PermitWasSeen
    /\ DownloadRechecked

\* The page shows the layout of what is shared, unless its unlock was answered
\* without the share's properties.
LayoutIsKnown ==
    \A t \in Tabs : view[t] \in Layouts /\ ~blind[t] => view[t] = Kind[On(t)]

\* What makes it inductive: so does the answer on its way; the upload prompt is
\* that of an upload share; an unlock runs while the page shows its prompt, so
\* that it never clears blind behind a layout that was guessed.
LayoutInv ==
    /\ LayoutIsKnown
    /\ \A t \in Tabs :
          reply[t].page \in Layouts /\ ~blind[t] => reply[t].page = Kind[On(t)]
    /\ \A t \in Tabs :
          "uploadPrompt" \in {view[t], reply[t].page} => Kind[On(t)] = "upload"
    /\ \A t \in Tabs : call[t] \in {"unlock", "logged"} => view[t] \in Prompts

\* "the reload-after-unlock path in browse.html handles the upload case if
\* IsUpload can't be determined here" (sharing/context.go:227-228): the
\* reload leads to the upload page, not to the next prompt, while the browser
\* still has the session of the unlock.
ReloadOpensUpload ==
    \A t \in Tabs : reloaded[t] /\ jar[Path(On(t))] = Token(On(t), "password") =>
        view[t] \notin Prompts
=============================================================================
