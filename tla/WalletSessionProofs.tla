------------------------ MODULE WalletSessionProofs ------------------------
(***************************************************************************)
(* Proofs about WalletSession, for any words, wallets and faults.          *)
(*                                                                         *)
(* None of the properties is inductive.  They hold because a page is bound *)
(* to its wallet and a handler to its page: PageOK and JobOK say how.      *)
(***************************************************************************)
EXTENDS WalletSession, TLAPS

Kinds ==
  {"home", "create_wallet", "setup", "unlock", "loading", "error", "unavailable",
   "account", "launch", "swap"}

\* Only pages that have a wallet stand for one, and a page that polls has a configuration.
PageOK ==
  /\ page \in [kind: Kinds, wallet: Wallets \cup {NoWallet}, asks: Kinds \cup {"none"}]
  /\ page.kind \notin {"home", "create_wallet"} => page.wallet \in Wallets
  /\ page.kind \in Guarded => config[page.wallet] # "none"
  /\ answer = "raised" => page.kind \in Guarded

\* A handler that writes a file writes one of the wallet of its page; the passphrase in
\* use while a wallet is created is the new wallet's.
JobOK ==
  /\ job = "create" =>
       /\ page.kind = "create_wallet" /\ page.wallet \in Wallets
       /\ passphrase = secret[page.wallet] /\ passphrase \in Stripped
       /\ keystore[page.wallet] = "torn"
  /\ job = "setup" => page.kind = "setup" /\ config[page.wallet] = "torn"
  /\ job = "account" => page.kind = "loading" /\ config[page.wallet] = "torn"

Inv ==
  /\ TypeOK /\ PageOK /\ JobOK
  /\ ConfigHasKey /\ LaunchedWithOwn /\ HeldPassphraseOpens
  /\ TornKeyHidesNothing /\ PollsServed

\* A stripped passphrase is typed, and is a passphrase.
LEMMA StripIsStripped ==
  /\ \A t \in Typed : Strip(t) \in Stripped
  /\ None \notin Typed /\ Stripped \subseteq Typed
  BY SessionAssumption DEF Strip, Stripped, Typed, None, Blank

\* Wallets are positive.
LEMMA WalletsArePositive == NoWallet \notin Wallets /\ Wallets \subseteq Nat
  BY SessionAssumption DEF Wallets, NoWallet

\* What a page must be to be shown.
Shows(p) ==
  /\ p \in [kind: Kinds, wallet: Wallets \cup {NoWallet}, asks: Kinds \cup {"none"}]
  /\ p.kind \notin {"home", "create_wallet"} => p.wallet \in Wallets
  /\ p.kind \in Guarded => config[p.wallet] # "none"
  /\ p.kind = "error" =>
       \/ config[p.wallet] = "torn"
       \/ p.asks = "account" /\ \E v \in Wallets : keystore[v] = "torn"

\* The passphrase held goes on opening a wallet while keys and passphrase stay.
LEMMA HeldKept ==
  ASSUME HeldPassphraseOpens, job # "create", orphan' = orphan,
         UNCHANGED <<keystore, secret, passphrase>>
  PROVE  HeldPassphraseOpens'
<1>1. SUFFICES ASSUME passphrase' # None, ~orphan'
               PROVE  \E w \in Wallets : Opens(passphrase, w)'
  BY Zenon DEF HeldPassphraseOpens
<1>2. ~orphan
  BY <1>1
<1>3. passphrase # None
  BY <1>1
<1>4. PICK w \in Wallets : Opens(passphrase, w)
  BY <1>2, <1>3, Zenon DEF HeldPassphraseOpens
<1>5. Opens(passphrase, w)'
  BY <1>4 DEF Opens
<1> QED
  BY <1>5

\* Loading a page that may be shown, with nothing else changed, keeps the invariant.
LEMMA LoadKeepsInv ==
  ASSUME Inv, Idle, NEW p, Shows(p), Load(p), UNCHANGED <<files, passphrase, job>>
  PROVE  Inv'
<1>1. /\ page' = p /\ socket' = TRUE /\ wait' = "no" /\ answer' = "none"
      /\ UNCHANGED <<keystore, secret, config, passphrase, job, launched, orphan, faults>>
      /\ job = "none"
  BY DEF Load, Idle, files
<1>2. TypeOK'
  BY <1>1 DEF Inv, TypeOK, Shows
<1>3. PageOK' /\ JobOK'
  BY <1>1 DEF Inv, PageOK, JobOK, Shows
<1>4. ConfigHasKey' /\ LaunchedWithOwn'
  BY <1>1 DEF Inv, ConfigHasKey, LaunchedWithOwn
<1>5. HeldPassphraseOpens'
  BY <1>1, HeldKept DEF Inv
<1>6. TornKeyHidesNothing' /\ PollsServed'
  BY <1>1 DEF Inv, TornKeyHidesNothing, PollsServed, Shows
<1> QED
  BY <1>2, <1>3, <1>4, <1>5, <1>6 DEF Inv

\* Every page of a wallet keeps the invariant.
LEMMA VisitKeepsInv ==
  ASSUME Inv, NEW kind \in Guarded, NEW w \in Wallets, Visit(kind, w)
  PROVE  Inv'
<1>0. Idle /\ config[w] # "none" /\ keystore[w] = "whole" /\ kind \in Kinds
  BY DEF Visit, Inv, ConfigHasKey, Guarded, Kinds
<1>1. CASE Broken(kind, w)
  <2>1. config[w] = "torn"
    BY <1>0, <1>1 DEF Broken, Loadable, Inv, TypeOK
  <2>2. Shows(Page("error", w, kind))
    BY <1>0, <2>1 DEF Shows, Page, Kinds, Guarded
  <2> QED
    BY <1>0, <1>1, <2>2, LoadKeepsInv DEF Broken
<1>2. CASE Locked(kind, w)
  <2>1. Shows(Page("unlock", w, kind))
    BY <1>0 DEF Shows, Page, Kinds, Guarded
  <2> QED
    BY <1>0, <1>2, <2>1, LoadKeepsInv DEF Locked
<1>3. CASE Render(kind, w)
  <2>1. PICK shown \in {kind, "unavailable"} : Load(Page(shown, w, kind))
    BY <1>3 DEF Render
  <2>2. Shows(Page(shown, w, kind))
    BY <1>0, <2>1 DEF Shows, Page, Kinds, Guarded
  <2> QED
    BY <1>0, <1>3, <2>1, <2>2, LoadKeepsInv DEF Render
<1>4. CASE kind = "account" /\ TornFirst(w)
  <2>1. Shows(Page("error", w, "account"))
    BY <1>0, <1>4 DEF Shows, Page, Kinds, Guarded, TornFirst
  <2> QED
    BY <1>0, <1>4, <2>1, LoadKeepsInv DEF TornFirst
<1>5. CASE kind = "account" /\ ClearFunding(w)
  <2>1. /\ page' = [kind |-> "loading", wallet |-> w, asks |-> "account"]
        /\ socket' = TRUE /\ wait' = "no" /\ answer' = "none" /\ job' = "account" /\ job = "none"
        /\ config' = [config EXCEPT ![w] = "torn"]
        /\ UNCHANGED <<keystore, secret, passphrase, launched, orphan, faults>>
    BY <1>0, <1>5 DEF ClearFunding, Load, Page, Idle
  <2>2. TypeOK'
    BY <2>1 DEF Inv, TypeOK
  <2>3. PageOK' /\ JobOK'
    BY <2>1 DEF Inv, PageOK, JobOK, Kinds, Guarded, TypeOK
  <2>4. ConfigHasKey' /\ LaunchedWithOwn'
    BY <1>0, <2>1 DEF Inv, ConfigHasKey, LaunchedWithOwn, TypeOK
  <2>5. HeldPassphraseOpens'
    BY <2>1, HeldKept DEF Inv
  <2>6. TornKeyHidesNothing' /\ PollsServed'
    BY <2>1 DEF TornKeyHidesNothing, PollsServed
  <2> QED
    BY <2>2, <2>3, <2>4, <2>5, <2>6 DEF Inv
<1> QED
  BY <1>1, <1>2, <1>3, <1>4, <1>5 DEF Visit

\* A creation starts with a new file, which no configuration belongs to.
LEMMA CreateKeepsInv ==
  ASSUME Inv, NEW t \in Typed, CreateWallet(t)
  PROVE  Inv'
<1> DEFINE word == Strip(t)
<1>1. word \in Stripped /\ word # None
  BY StripIsStripped
<1>2. PICK w \in Wallets :
        /\ Fresh(w)
        /\ keystore' = [keystore EXCEPT ![w] = "torn"]
        /\ secret' = [secret EXCEPT ![w] = word]
        /\ page' = [page EXCEPT !.wallet = w]
  BY DEF CreateWallet
<1>3. /\ passphrase' = word /\ job' = "create" /\ wait' = "sent"
      /\ page.kind = "create_wallet" /\ keystore[w] = "none"
      /\ UNCHANGED <<config, socket, answer, launched, orphan, faults>>
  BY <1>2 DEF CreateWallet, From, Fresh
<1> HIDE DEF word
<1>4. page' = [kind |-> "create_wallet", wallet |-> w, asks |-> page.asks] /\ page.asks \in Kinds \cup {"none"}
  BY <1>2, <1>3 DEF Inv, PageOK
<1>5. TypeOK'
  BY <1>1, <1>2, <1>3, <1>4 DEF Inv, TypeOK
<1>6. PageOK'
  BY <1>3, <1>4 DEF Inv, PageOK, Kinds, Guarded
<1>7. JobOK'
  BY <1>1, <1>2, <1>3, <1>4 DEF Inv, JobOK, TypeOK
<1>8. ConfigHasKey' /\ LaunchedWithOwn'
  <2>1. \A v \in Wallets : v # w => keystore'[v] = keystore[v] /\ secret'[v] = secret[v]
    BY <1>2 DEF Inv, TypeOK
  <2>2. ConfigHasKey'
    BY <1>3, <2>1 DEF Inv, ConfigHasKey
  <2>3. LaunchedWithOwn'
    BY <1>3, <2>1 DEF Inv, LaunchedWithOwn, TypeOK
  <2> QED
    BY <2>2, <2>3
<1>9. HeldPassphraseOpens'
  BY <1>3 DEF HeldPassphraseOpens
<1>10. TornKeyHidesNothing' /\ PollsServed'
  BY <1>3, <1>4 DEF Inv, PageOK, TornKeyHidesNothing, PollsServed, Guarded
<1> QED
  BY <1>5, <1>6, <1>7, <1>8, <1>9, <1>10 DEF Inv

\* The keystore is written: the passphrase of the process is its own.
LEMMA WrittenKeepsInv ==
  ASSUME Inv, WalletWritten
  PROVE  Inv'
<1>1. /\ job = "create" /\ job' = "none" /\ wait' = "redirect"
      /\ keystore' = [keystore EXCEPT ![page.wallet] = "whole"]
      /\ UNCHANGED <<page, socket, answer, secret, config, passphrase, launched, faults>>
  BY DEF WalletWritten, Reply
<1>2. orphan' = FALSE
  BY DEF WalletWritten
<1>3. PICK w \in Wallets :
        /\ w = page.wallet /\ keystore[w] = "torn" /\ page.kind = "create_wallet"
        /\ passphrase = secret[w] /\ passphrase \in Stripped
  BY <1>1 DEF Inv, JobOK
<1>4. TypeOK'
  <2>1. orphan' \in BOOLEAN
    BY <1>2
  <2> QED
    BY <1>1, <2>1 DEF Inv, TypeOK
<1>5. PageOK' /\ JobOK'
  BY <1>1 DEF Inv, PageOK, JobOK
<1>6. \A v \in Wallets : keystore[v] = "whole" => keystore'[v] = "whole"
  BY <1>1 DEF Inv, TypeOK
<1>7. ConfigHasKey'
  BY <1>1, <1>6 DEF Inv, ConfigHasKey
<1>8. LaunchedWithOwn'
  BY <1>1, <1>6 DEF Inv, LaunchedWithOwn, TypeOK
<1>9. HeldPassphraseOpens'
  <2>1. keystore'[w] = "whole"
    BY <1>1, <1>3 DEF Inv, TypeOK
  <2>2. passphrase' # None
    BY <1>1, <1>3, StripIsStripped
  <2>3. Opens(passphrase, w)'
    BY <1>1, <1>3, <2>1, <2>2 DEF Opens
  <2> QED
    BY <1>3, <2>3 DEF HeldPassphraseOpens
<1>10. TornKeyHidesNothing' /\ PollsServed'
  BY <1>1, <1>3 DEF Inv, PageOK, TornKeyHidesNothing, PollsServed, Guarded
<1> QED
  BY <1>4, <1>5, <1>7, <1>8, <1>9, <1>10 DEF Inv

\* Set-up and the account page write the configuration of the page's wallet.
LEMMA ConfigKeepsInv ==
  ASSUME Inv, RunSetup \/ ConfigWritten
  PROVE  Inv'
<1> DEFINE w == page.wallet
<1>1. CASE RunSetup
  <2>1. /\ page.kind = "setup" /\ job = "none"
        /\ UNCHANGED <<keystore, secret, passphrase, launched, orphan, faults, page, answer>>
        /\ wait' \in {"sent", "error"} /\ socket' \in {socket, FALSE}
    BY <1>1 DEF RunSetup, From, Reply, Raised
  <2>2. \/ job' = job /\ config' = config
        \/ keystore[w] = "whole" /\ job' = "setup" /\ config' = [config EXCEPT ![w] = "torn"]
    BY <1>1 DEF RunSetup
  <2>3. w \in Wallets
    BY <2>1 DEF Inv, PageOK
  <2> HIDE DEF w
  <2>4. TypeOK'
    <3>1. socket' \in BOOLEAN
      BY <2>1 DEF Inv, TypeOK
    <3> QED
      BY <2>1, <2>2, <3>1 DEF Inv, TypeOK
  <2>5. PageOK' /\ JobOK'
    BY <2>1, <2>2, <2>3 DEF Inv, PageOK, JobOK, TypeOK, Guarded, w
  <2>6. ConfigHasKey' /\ LaunchedWithOwn'
    BY <2>1, <2>2 DEF Inv, ConfigHasKey, LaunchedWithOwn, TypeOK
  <2>7. HeldPassphraseOpens'
    BY <2>1, HeldKept DEF Inv
  <2>8. TornKeyHidesNothing' /\ PollsServed'
    BY <2>1 DEF Inv, PageOK, TornKeyHidesNothing, PollsServed, Guarded
  <2> QED
    BY <2>4, <2>5, <2>6, <2>7, <2>8 DEF Inv
<1>2. CASE ConfigWritten
  <2>1. /\ job \in {"setup", "account"} /\ job' = "none"
        /\ config' = [config EXCEPT ![w] = "whole"]
        /\ UNCHANGED <<keystore, secret, passphrase, launched, orphan, faults>>
    BY <1>2 DEF ConfigWritten
  <2>2. /\ page.kind \in {"setup", "loading"} /\ config[w] = "torn"
    BY <2>1 DEF Inv, JobOK
  <2>3. w \in Wallets
    BY <2>2 DEF Inv, PageOK
  <2>4. keystore[w] = "whole"
    BY <2>2, <2>3 DEF Inv, ConfigHasKey
  <2>5. \/ wait' = "redirect" /\ UNCHANGED <<page, socket, answer>>
        \/ /\ page' = [kind |-> "account", wallet |-> w, asks |-> "account"]
           /\ socket' = TRUE /\ wait' = "no" /\ answer' = "none"
    BY <1>2 DEF ConfigWritten, Reply, Load, Page
  <2>6. page'.kind # "error" /\ page'.wallet = w /\ answer' # "raised"
    BY <2>2, <2>5 DEF Inv, PageOK, Guarded
  <2> HIDE DEF w
  <2>7. TypeOK'
    <3>1. socket' \in BOOLEAN
      BY <2>5 DEF Inv, TypeOK
    <3> QED
      BY <2>1, <2>3, <2>5, <2>6, <3>1 DEF Inv, TypeOK
  <2>8. PageOK'
    BY <2>1, <2>2, <2>3, <2>5, <2>6 DEF Inv, PageOK, TypeOK, Guarded, Kinds
  <2>9. JobOK'
    BY <2>1 DEF JobOK
  <2>10. ConfigHasKey' /\ LaunchedWithOwn'
    BY <2>1, <2>4 DEF Inv, ConfigHasKey, LaunchedWithOwn, TypeOK
  <2>11. HeldPassphraseOpens'
    BY <2>1, HeldKept DEF Inv
  <2>12. TornKeyHidesNothing' /\ PollsServed'
    BY <2>6 DEF TornKeyHidesNothing, PollsServed
  <2> QED
    BY <2>7, <2>8, <2>9, <2>10, <2>11, <2>12 DEF Inv
<1> QED
  BY <1>1, <1>2

\* The other messages and the polls write no file.
LEMMA MessagesKeepInv ==
  ASSUME Inv, (\E t \in Typed : Unlock(t)) \/ RunLaunch \/ WalletFails \/ Api
  PROVE  Inv'
<1>1. CASE \E t \in Typed : Unlock(t)
  <2>1. PICK t \in Typed : Unlock(t)
    BY <1>1
  <2>2. /\ page.kind = "unlock" /\ wait' \in {"redirect", "error"}
        /\ UNCHANGED <<keystore, secret, config, job, launched, faults, page, socket, answer>>
    BY <2>1 DEF Unlock, From, Reply, files
  <2>3. page.wallet \in Wallets
    BY <2>2 DEF Inv, PageOK
  <2>4. HeldPassphraseOpens' /\ passphrase' \in Stripped \cup {None}
    <3>1. CASE Opens(t, page.wallet) /\ passphrase' = t
      <4>1. t \in Stripped
        BY <2>3, <3>1 DEF Opens, Inv, TypeOK
      <4>2. Opens(passphrase, page.wallet)'
        BY <2>2, <3>1 DEF Opens
      <4> QED
        BY <2>2, <2>3, <3>1, <4>1, <4>2 DEF HeldPassphraseOpens
    <3>2. CASE UNCHANGED <<passphrase, orphan>>
      <4>1. job # "create"
        BY <2>1 DEF Unlock, From
      <4> QED
        BY <2>2, <3>2, <4>1, HeldKept DEF Inv, TypeOK
    <3> QED
      BY <2>1, <3>1, <3>2 DEF Unlock
  <2>5. orphan' \in BOOLEAN
    BY <2>1 DEF Unlock, Inv, TypeOK
  <2>6. TypeOK'
    BY <2>2, <2>4, <2>5 DEF Inv, TypeOK
  <2>7. PageOK' /\ JobOK'
    BY <2>2 DEF Inv, PageOK, JobOK
  <2>8. ConfigHasKey' /\ LaunchedWithOwn' /\ TornKeyHidesNothing' /\ PollsServed'
    BY <2>2 DEF Inv, ConfigHasKey, LaunchedWithOwn, TornKeyHidesNothing, PollsServed
  <2> QED
    BY <2>4, <2>6, <2>7, <2>8 DEF Inv
<1>2. CASE RunLaunch
  <2>1. /\ page.kind = "launch" /\ job = "none"
        /\ UNCHANGED <<keystore, secret, config, passphrase, job, orphan, faults, page, answer>>
        /\ wait' \in {"sent", "error", "redirect"} /\ socket' \in {socket, FALSE}
    BY <1>2 DEF RunLaunch, From, Reply, Raised, files
  <2>2. page.wallet \in Wallets
    BY <2>1 DEF Inv, PageOK
  <2>3. launched' \subseteq Wallets \X Stripped /\ LaunchedWithOwn'
    <3>1. CASE launched' = launched
      BY <2>1, <3>1 DEF Inv, TypeOK, LaunchedWithOwn
    <3>2. CASE TryUnlock(page.wallet) /\ launched' = launched \cup {<<page.wallet, passphrase>>}
      <4>1. passphrase \in Stripped /\ keystore[page.wallet] = "whole" /\ passphrase = secret[page.wallet]
        BY <3>2 DEF TryUnlock, Opens, Inv, TypeOK
      <4> QED
        BY <2>1, <2>2, <3>2, <4>1 DEF Inv, TypeOK, LaunchedWithOwn
    <3> QED
      BY <1>2, <3>1, <3>2 DEF RunLaunch
  <2>4. TypeOK'
    <3>1. socket' \in BOOLEAN
      BY <2>1 DEF Inv, TypeOK
    <3> QED
      BY <2>1, <2>3, <3>1 DEF Inv, TypeOK
  <2>5. HeldPassphraseOpens'
    BY <2>1, HeldKept DEF Inv
  <2>6. PageOK' /\ JobOK'
    BY <2>1 DEF Inv, PageOK, JobOK
  <2>7. ConfigHasKey' /\ TornKeyHidesNothing' /\ PollsServed'
    BY <2>1 DEF Inv, ConfigHasKey, TornKeyHidesNothing, PollsServed
  <2> QED
    BY <2>3, <2>4, <2>5, <2>6, <2>7 DEF Inv
<1>3. CASE WalletFails
  <2>1. /\ job = "create" /\ job' = "none" /\ wait' = "sent" /\ faults' = faults + 1 /\ faults < MaxFaults
        /\ UNCHANGED <<keystore, secret, config, passphrase, launched, page, answer>>
    BY <1>3 DEF WalletFails, Raised, files
  <2>2. orphan' = TRUE /\ socket' = FALSE
    BY <1>3 DEF WalletFails, Raised
  <2>3. TypeOK'
    <3>1. faults' \in 0 .. MaxFaults
      BY <2>1, SessionAssumption DEF Inv, TypeOK
    <3>2. socket' \in BOOLEAN /\ orphan' \in BOOLEAN
      BY <2>2
    <3> QED
      BY <2>1, <3>1, <3>2 DEF Inv, TypeOK
  <2>4. PageOK' /\ JobOK'
    BY <2>1 DEF Inv, PageOK, JobOK
  <2>5. ConfigHasKey' /\ LaunchedWithOwn' /\ TornKeyHidesNothing' /\ PollsServed'
    BY <2>1 DEF Inv, ConfigHasKey, LaunchedWithOwn, TornKeyHidesNothing, PollsServed
  <2>6. HeldPassphraseOpens'
    BY <2>2 DEF HeldPassphraseOpens
  <2> QED
    BY <2>3, <2>4, <2>5, <2>6 DEF Inv
<1>4. CASE Api
  <2>1. /\ page.kind \in Guarded /\ job = "none" /\ answer' \in {"served", "raised"}
        /\ UNCHANGED <<keystore, secret, config, passphrase, job, launched, orphan, faults, page, socket, wait>>
        /\ answer' = "raised" => ~(Loadable(page.wallet) /\ Signer(page.wallet))
    BY <1>4 DEF Api, Idle, files
  <2>2. page.wallet \in Wallets /\ config[page.wallet] # "none"
    BY <2>1 DEF Inv, PageOK, Guarded
  <2>3. TypeOK'
    BY <2>1 DEF Inv, TypeOK
  <2>4. PageOK' /\ JobOK'
    BY <2>1 DEF Inv, PageOK, JobOK
  <2>5. ConfigHasKey' /\ LaunchedWithOwn' /\ TornKeyHidesNothing'
    BY <2>1 DEF Inv, ConfigHasKey, LaunchedWithOwn, TornKeyHidesNothing
  <2>6. PollsServed'
    <3>1. CASE ~Loadable(page.wallet)
      BY <2>1, <2>2, <3>1 DEF Loadable, Inv, TypeOK, ConfigHasKey, PollsServed
    <3>2. CASE ~Signer(page.wallet)
      BY <2>1, <2>2, <3>2 DEF Signer, TryUnlock, Opens, PollsServed
    <3>3. CASE answer' # "raised"
      BY <3>3 DEF PollsServed
    <3> QED
      BY <2>1, <3>1, <3>2, <3>3
  <2>7. HeldPassphraseOpens'
    BY <2>1, HeldKept DEF Inv
  <2> QED
    BY <2>3, <2>4, <2>5, <2>6, <2>7 DEF Inv
<1> QED
  BY <1>1, <1>2, <1>3, <1>4

-----------------------------------------------------------------------------

\* The invariant holds in the beginning.
LEMMA InitInv == Init => Inv
<1> SUFFICES ASSUME Init PROVE Inv
  OBVIOUS
<1>1. TypeOK
  <2>1. socket \in BOOLEAN /\ orphan \in BOOLEAN
    BY DEF Init
  <2> QED
    BY <2>1, SessionAssumption DEF Init, TypeOK, Page
<1>2. PageOK
  BY DEF Init, PageOK, Page, Kinds, Guarded
<1>3. JobOK /\ ConfigHasKey /\ LaunchedWithOwn /\ HeldPassphraseOpens /\ TornKeyHidesNothing /\ PollsServed
  BY DEF Init, JobOK, ConfigHasKey, LaunchedWithOwn, HeldPassphraseOpens, TornKeyHidesNothing,
         PollsServed, Page
<1> QED
  BY <1>1, <1>2, <1>3 DEF Inv

\* Every step keeps it.
LEMMA NextInv == Inv /\ [Next]_vars => Inv'
<1> SUFFICES ASSUME Inv, [Next]_vars PROVE Inv'
  OBVIOUS
<1>1. CASE Home
  <2>1. PICK w \in Wallets \cup {NoWallet} : Load(Page("home", w, "none"))
    BY <1>1 DEF Home, Available
  <2>2. Shows(Page("home", w, "none"))
    BY <2>1 DEF Shows, Page, Kinds, Guarded
  <2> QED
    BY <1>1, <2>1, <2>2, LoadKeepsInv DEF Home
<1>2. CASE WalletCreation
  <2>1. Shows(Page("create_wallet", NoWallet, "none"))
    BY DEF Shows, Page, Kinds, Guarded
  <2> QED
    BY <1>2, <2>1, LoadKeepsInv DEF WalletCreation
<1>3. CASE Setup
  <2>1. PICK w \in Wallets : Load(Page("setup", w, "none"))
    BY <1>3 DEF Setup
  <2>2. Shows(Page("setup", w, "none"))
    BY <2>1 DEF Shows, Page, Kinds, Guarded
  <2> QED
    BY <1>3, <2>1, <2>2, LoadKeepsInv DEF Setup
<1>4. CASE \E kind \in Guarded, w \in Wallets : Visit(kind, w)
  BY <1>4, VisitKeepsInv
<1>5. CASE (\E t \in Typed : Unlock(t)) \/ RunLaunch \/ WalletFails \/ Api
  BY <1>5, MessagesKeepInv
<1>6. CASE \E t \in Typed : CreateWallet(t)
  BY <1>6, CreateKeepsInv
<1>7. CASE WalletWritten
  BY <1>7, WrittenKeepsInv
<1>8. CASE RunSetup \/ ConfigWritten
  BY <1>8, ConfigKeepsInv
<1>9. CASE Crash
  <2>1. /\ faults < MaxFaults /\ faults' = faults + 1 /\ passphrase' = None
        /\ job' = "none" /\ answer' = "none"
        /\ UNCHANGED <<keystore, secret, config, page, wait, launched>>
    BY <1>9 DEF Crash, files
  <2>2. orphan' = FALSE /\ socket' = FALSE
    BY <1>9 DEF Crash
  <2>3. TypeOK'
    <3>1. faults' \in 0 .. MaxFaults
      BY <2>1, SessionAssumption DEF Inv, TypeOK
    <3>2. socket' \in BOOLEAN /\ orphan' \in BOOLEAN
      BY <2>2
    <3> QED
      BY <2>1, <3>1, <3>2 DEF Inv, TypeOK
  <2>4. PageOK' /\ JobOK' /\ ConfigHasKey' /\ LaunchedWithOwn' /\ TornKeyHidesNothing' /\ PollsServed'
    BY <2>1 DEF Inv, PageOK, JobOK, ConfigHasKey, LaunchedWithOwn, TornKeyHidesNothing, PollsServed
  <2>5. HeldPassphraseOpens'
    BY <2>1 DEF HeldPassphraseOpens
  <2> QED
    BY <2>3, <2>4, <2>5 DEF Inv
<1>10. CASE UNCHANGED vars
  <2>1. UNCHANGED <<keystore, secret, config, passphrase, page, socket, wait, answer, job, launched, orphan, faults>>
    BY <1>10 DEF vars, files, tab
  <2>2. TypeOK'
    BY <2>1 DEF Inv, TypeOK
  <2>3. PageOK' /\ JobOK' /\ ConfigHasKey' /\ LaunchedWithOwn' /\ TornKeyHidesNothing' /\ PollsServed'
    BY <2>1 DEF Inv, PageOK, JobOK, ConfigHasKey, LaunchedWithOwn, TornKeyHidesNothing, PollsServed
  <2>4. HeldPassphraseOpens'
    BY <2>1 DEF Inv, HeldPassphraseOpens, Opens
  <2> QED
    BY <2>2, <2>3, <2>4 DEF Inv
<1> QED
  BY <1>1, <1>2, <1>3, <1>4, <1>5, <1>6, <1>7, <1>8, <1>9, <1>10 DEF Next

\* The inductive invariant holds throughout.
THEOREM Invariance == Spec => []Inv
  BY InitInv, NextInv, PTL DEF Spec

\* The variables keep their types: only stripped passphrases encrypt a wallet or are held.
THEOREM TypeCorrect == Spec => []TypeOK
<1>1. Inv => TypeOK
  BY DEF Inv
<1> QED
  BY <1>1, Invariance, PTL

\* _run_launch starts no client with a passphrase that is not its own wallet's.
THEOREM AlwaysLaunchedWithOwn == Spec => []LaunchedWithOwn
<1>1. Inv => LaunchedWithOwn
  BY DEF Inv
<1> QED
  BY <1>1, Invariance, PTL

\* Every configuration file belongs to a keystore that can be opened.
THEOREM ConfigAlwaysHasKey == Spec => []ConfigHasKey
<1>1. Inv => ConfigHasKey
  BY DEF Inv
<1> QED
  BY <1>1, Invariance, PTL

\* The passphrase in use opens some wallet, but for a creation that failed.
THEOREM HeldAlwaysOpens == Spec => []HeldPassphraseOpens
<1>1. Inv => HeldPassphraseOpens
  BY DEF Inv
<1> QED
  BY <1>1, Invariance, PTL

\* Torn files fail no page but their own and the account page.
THEOREM TornNeverHides == Spec => []TornKeyHidesNothing
<1>1. Inv => TornKeyHidesNothing
  BY DEF Inv
<1> QED
  BY <1>1, Invariance, PTL

\* Polls raise only for a torn configuration or an empty passphrase.
THEOREM PollsAlwaysServed == Spec => []PollsServed
<1>1. Inv => PollsServed
  BY DEF Inv
<1> QED
  BY <1>1, Invariance, PTL

\* A keystore that was written is never touched again.
THEOREM KeysAlwaysSurvive == Spec => KeysSurvive
<1> DEFINE Kept == \A w \in Wallets : keystore[w] = "whole" =>
                    keystore'[w] = "whole" /\ secret'[w] = secret[w]
<1>1. ASSUME Inv, [Next]_vars PROVE [Kept]_vars
  <2>1. CASE \E t \in Typed : CreateWallet(t)
    <3>1. PICK w \in Wallets, t \in Typed :
            /\ Fresh(w)
            /\ keystore' = [keystore EXCEPT ![w] = "torn"]
            /\ secret' = [secret EXCEPT ![w] = Strip(t)]
      BY <2>1 DEF CreateWallet
    <3> QED
      BY <1>1, <3>1 DEF Fresh, Inv, TypeOK
  <2>2. CASE WalletWritten
    BY <1>1, <2>2 DEF WalletWritten, Inv, TypeOK
  <2>3. CASE UNCHANGED <<keystore, secret>>
    BY <2>3
  <2>4. CASE UNCHANGED vars
    BY <2>4
  <2>5. ASSUME NEW kind \in Guarded, NEW w \in Wallets, Visit(kind, w)
        PROVE  UNCHANGED <<keystore, secret>>
    BY <2>5 DEF Visit, Broken, Locked, TornFirst, Render, ClearFunding, files
  <2>6. ASSUME NEW t \in Typed, Unlock(t)
        PROVE  UNCHANGED <<keystore, secret>>
    BY <2>6 DEF Unlock, files
  <2>7. Home \/ WalletCreation \/ Setup \/ WalletFails \/ RunSetup \/ ConfigWritten
        \/ RunLaunch \/ Api \/ Crash => UNCHANGED <<keystore, secret>>
    BY DEF Home, WalletCreation, Setup, WalletFails, RunSetup, ConfigWritten, RunLaunch, Api,
           Crash, files
  <2> QED
    BY <1>1, <2>1, <2>2, <2>3, <2>4, <2>5, <2>6, <2>7 DEF Next
<1> QED
  BY <1>1, Invariance, PTL DEF Spec, KeysSurvive
=============================================================================
