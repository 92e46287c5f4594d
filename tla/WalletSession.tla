--------------------------- MODULE WalletSession ---------------------------
(***************************************************************************)
(* The wizard's session: wallets, their configuration files, the           *)
(* passphrase the process holds and the pages of one browser tab.  A page  *)
(* is answered in one step, except where the handler writes a file: the    *)
(* file is truncated, then written, and the wizard may crash in between,   *)
(* which also loses the passphrase.  A handler runs to its end before the  *)
(* next one starts: the server has one thread.                             *)
(*                                                                         *)
(* A wallet is a keystore file, a configuration belongs to its address.    *)
(***************************************************************************)
EXTENDS Naturals

CONSTANTS
  Words,        \* passphrases a user thinks of, but for the blank one
  NWallets,     \* bound: keystore files
  MaxFaults     \* bound: crashes of the wizard and failed creations

ASSUME SessionAssumption ==
  NWallets \in Nat \ {0} /\ MaxFaults \in Nat /\ "none" \notin Words

VARIABLES
  keystore,     \* the keystore file of each wallet
  secret,       \* what it is encrypted with
  config,       \* the configuration file of each wallet
  passphrase,   \* PASSPHRASE
  page,         \* what the browser shows: its kind, its wallet, where unlocking returns to
  socket,       \* is the page's WebSocket open?
  wait,         \* what became of the page's last message
  answer,       \* the last answer of the API to the page
  job,          \* the handler that is writing a file
  launched,     \* clients started: the wallet and the passphrase in the file
  orphan,       \* a creation failed with its passphrase already set
  faults

files == <<keystore, secret, config>>
tab == <<page, socket, wait, answer>>
vars == <<files, passphrase, tab, job, launched, orphan, faults>>

Wallets == 1 .. NWallets
NoWallet == 0

\* A passphrase as it is typed: a word, perhaps with spaces around it.
Blank == "blank"
Typed == [word : Words \cup {Blank}, padded : BOOLEAN]

\* Slip: the passphrase is used as it is typed.
SlipStrip(t) == t

\* str.strip
Strip(t) == [t EXCEPT !.padded = FALSE]

Stripped == {t \in Typed : ~t.padded}

\* PASSPHRASE is None.
None == [word |-> "none", padded |-> FALSE]

\* Pages that ask for a passphrase first.
Guarded == {"account", "launch", "swap"}
Page(kind, w, asks) == [kind |-> kind, wallet |-> w, asks |-> asks]

\* Account.check_passphrase: None.encode() is an exception like a wrong passphrase.
Opens(p, w) == keystore[w] = "whole" /\ p # None /\ p = secret[w]

\* Slip: a keystore that cannot be parsed ends the search.
SlipLoadable(w) ==
  config[w] = "whole" /\ \A v \in Wallets : keystore[v] # "torn"

\* RaidenConfigurationFile.load: the file can be parsed and the folder holds a
\* keystore of its address.  Keystores that cannot be parsed are skipped.
Loadable(w) == config[w] = "whole" /\ keystore[w] = "whole"

\* get_available_configurations
Available == {w \in Wallets : Loadable(w)}

Init ==
  /\ keystore = [w \in Wallets |-> "none"] /\ secret = [w \in Wallets |-> None]
  /\ config = [w \in Wallets |-> "none"]
  /\ passphrase = None
  /\ page = Page("home", NoWallet, "none") /\ socket = TRUE
  /\ wait = "no" /\ answer = "none"
  /\ job = "none" /\ launched = {} /\ orphan = FALSE /\ faults = 0

-----------------------------------------------------------------------------
(* Pages.  The browser may load any page whose address it has seen, which   *)
(* includes the one it is redirected to.                                   *)

\* A page loads and opens a new WebSocket.
Load(p) ==
  /\ page' = p /\ socket' = TRUE /\ wait' = "no" /\ answer' = "none"

Idle == job = "none" /\ UNCHANGED <<launched, orphan, faults>>

\* HomeHandler and IndexHandler: pop takes the last in the order of glob, which is
\* any.  Without a configuration the page leads to a new wallet.
Home ==
  /\ Idle /\ UNCHANGED <<files, passphrase, job>>
  /\ \/ Available = {} /\ Load(Page("home", NoWallet, "none"))
     \/ \E w \in Available : Load(Page("home", w, "none"))

WalletCreation ==
  /\ Idle /\ Load(Page("create_wallet", NoWallet, "none"))
  /\ UNCHANGED <<files, passphrase, job>>

\* The address holds the path of a keystore; nothing looks at it yet.
Setup ==
  /\ Idle /\ UNCHANGED <<files, passphrase, job>>
  /\ \E w \in Wallets :
       keystore[w] # "none" /\ Load(Page("setup", w, "none"))

\* get_by_filename raises: the answer is status 500.
Broken(kind, w) ==
  /\ ~Loadable(w) /\ Load(Page("error", w, kind))
  /\ UNCHANGED <<files, passphrase, job>>

\* Any account unlocks the pages of all.
Locked(kind, w) ==
  /\ Loadable(w) /\ passphrase = None /\ Load(Page("unlock", w, kind))
  /\ UNCHANGED <<files, passphrase, job>>

\* AccountDetailHandler parses the files named UTC--* up to the wallet's own, in any
\* order, and a torn one raises.
TornFirst(w) ==
  /\ Loadable(w) /\ passphrase # None
  /\ \E v \in Wallets : keystore[v] = "torn"
  /\ Load(Page("error", w, "account")) /\ UNCHANGED <<files, passphrase, job>>

\* The page is rendered, unless the node does not answer.
Render(kind, w) ==
  /\ Loadable(w) /\ passphrase # None
  /\ \E shown \in {kind, "unavailable"} : Load(Page(shown, w, kind))
  /\ UNCHANGED <<files, passphrase, job>>

\* The account has its ETH: the hash of the funding is cleared, and the
\* configuration saved, before the page is rendered.
ClearFunding(w) ==
  /\ Loadable(w) /\ passphrase # None /\ job' = "account"
  /\ config' = [config EXCEPT ![w] = "torn"]
  /\ Load(Page("loading", w, "account"))
  /\ UNCHANGED <<keystore, secret, passphrase>>

Visit(kind, w) ==
  /\ config[w] # "none" /\ Idle
  /\ \/ Broken(kind, w) \/ Locked(kind, w) \/ Render(kind, w)
     \/ kind = "account" /\ (TornFirst(w) \/ ClearFunding(w))

-----------------------------------------------------------------------------
(* Messages.  A page shows its spinner from a message to the answer.       *)

\* The page has sent a message of this kind: it is still open, and its view is back
\* after an error.
From(kind) ==
  /\ page.kind = kind /\ socket /\ wait \in {"no", "error"} /\ job = "none"

\* The answer, or none and the socket closed, when the handler raises.
Reply(what) == wait' = what /\ UNCHANGED <<page, socket, answer>>
Raised == wait' = "sent" /\ socket' = FALSE /\ UNCHANGED <<page, answer>>

\* Slip: the passphrase is kept before it is tried.
SlipUnlock(t) ==
  /\ From("unlock") /\ passphrase' = t
  /\ Reply(IF Opens(t, page.wallet) THEN "redirect" ELSE "error")
  /\ UNCHANGED <<files, job, launched, orphan, faults>>

\* _run_unlock tries the passphrase as it is typed.
Unlock(t) ==
  /\ From("unlock")
  /\ \/ Opens(t, page.wallet) /\ passphrase' = t /\ orphan' = FALSE /\ Reply("redirect")
     \/ ~Opens(t, page.wallet) /\ Reply("error") /\ UNCHANGED <<passphrase, orphan>>
  /\ UNCHANGED <<files, job, launched, faults>>

\* The page offers what is typed twice alike and is not empty.
Accepts(t) == t.word = Blank => t.padded

Fresh(w) == keystore[w] = "none" /\ \A v \in Wallets : keystore[v] = "none" => w <= v

\* Slip: the keystore is named by the time alone, and may be the file of another.
SlipCreateWallet(t) ==
  /\ From("create_wallet") /\ Accepts(t) /\ passphrase' = Strip(t)
  /\ \E w \in Wallets :
       /\ keystore' = [keystore EXCEPT ![w] = "torn"]
       /\ secret' = [secret EXCEPT ![w] = Strip(t)]
       /\ page' = [page EXCEPT !.wallet = w]
  /\ job' = "create" /\ wait' = "sent"
  /\ UNCHANGED <<config, socket, answer, launched, orphan, faults>>

\* _run_create_wallet sets the passphrase, stripped, and Account.create opens a new
\* file, whose name nothing else has.
CreateWallet(t) ==
  /\ From("create_wallet") /\ Accepts(t) /\ passphrase' = Strip(t)
  /\ \E w \in Wallets :
       /\ Fresh(w)
       /\ keystore' = [keystore EXCEPT ![w] = "torn"]
       /\ secret' = [secret EXCEPT ![w] = Strip(t)]
       /\ page' = [page EXCEPT !.wallet = w]
  /\ job' = "create" /\ wait' = "sent"
  /\ UNCHANGED <<config, socket, answer, launched, orphan, faults>>

\* Account.create returns; the page is sent to the setup of the wallet.
WalletWritten ==
  /\ job = "create" /\ job' = "none" /\ orphan' = FALSE /\ Reply("redirect")
  /\ keystore' = [keystore EXCEPT ![page.wallet] = "whole"]
  /\ UNCHANGED <<secret, config, passphrase, launched, faults>>

\* A full disk: json.dump raises, and the passphrase of no wallet stays.  (A folder
\* that cannot be made leaves no file instead of a torn one.)
WalletFails ==
  /\ job = "create" /\ faults < MaxFaults
  /\ job' = "none" /\ orphan' = TRUE /\ faults' = faults + 1 /\ Raised
  /\ UNCHANGED <<files, passphrase, launched>>

\* Slip: the configuration is written without a look at the keystore.
SlipRunSetup ==
  /\ From("setup") /\ job' = "setup" /\ Reply("sent")
  /\ config' = [config EXCEPT ![page.wallet] = "torn"]
  /\ UNCHANGED <<keystore, secret, passphrase, launched, orphan, faults>>

\* _run_setup: Account() raises on a torn keystore; an endpoint that is no Infura
\* project or does not answer is an error; else the configuration is saved.
RunSetup ==
  /\ From("setup")
  /\ \/ keystore[page.wallet] # "whole" /\ Raised /\ UNCHANGED <<config, job>>
     \/ keystore[page.wallet] = "whole" /\ Reply("error") /\ UNCHANGED <<config, job>>
     \/ /\ keystore[page.wallet] = "whole" /\ Reply("sent") /\ job' = "setup"
        /\ config' = [config EXCEPT ![page.wallet] = "torn"]
  /\ UNCHANGED <<keystore, secret, passphrase, launched, orphan, faults>>

\* toml.dump returns: the setup page is sent to the account page, and the account
\* page is rendered, unless the node does not answer.
ConfigWritten ==
  /\ job \in {"setup", "account"} /\ job' = "none"
  /\ config' = [config EXCEPT ![page.wallet] = "whole"]
  /\ IF job = "setup"
     THEN Reply("redirect")
     ELSE Load(Page("account", page.wallet, "account"))
  /\ UNCHANGED <<keystore, secret, passphrase, launched, orphan, faults>>

\* Slip: any passphrase is taken for an unlocked account.
SlipTryUnlock(w) == passphrase # None

\* try_unlock gives the account the passphrase of the process if it fits.
TryUnlock(w) == Opens(passphrase, w)

\* _run_launch: the passphrase of the process goes into the file Raiden reads.
RunLaunch ==
  /\ From("launch")
  /\ LET w == page.wallet
     IN \/ ~Loadable(w) /\ Raised /\ UNCHANGED launched
        \/ Loadable(w) /\ ~TryUnlock(w) /\ Reply("error") /\ UNCHANGED launched
        \/ /\ Loadable(w) /\ TryUnlock(w) /\ Reply("redirect")
           /\ launched' = launched \cup {<<w, passphrase>>}
  /\ UNCHANGED <<files, passphrase, job, orphan, faults>>

\* Slip: the middleware is made for locked accounts too.
SlipSigner(w) == TryUnlock(w) /\ passphrase.word # Blank

\* make_web3_provider: an account that is unlocked gets the middleware that signs,
\* and private_key takes an empty passphrase for none.
Signer(w) == TryUnlock(w) => passphrase.word # Blank

\* The polls of the pages: configuration, gas price and cost estimation.
Api ==
  /\ page.kind \in Guarded /\ Idle
  /\ answer' = IF Loadable(page.wallet) /\ Signer(page.wallet) THEN "served" ELSE "raised"
  /\ UNCHANGED <<files, passphrase, page, socket, wait, job>>

\* The wizard ends and is started again.  What it was writing stays torn.
Crash ==
  /\ faults < MaxFaults /\ faults' = faults + 1
  /\ passphrase' = None /\ orphan' = FALSE /\ socket' = FALSE /\ job' = "none"
  /\ answer' = "none" /\ UNCHANGED <<files, page, wait, launched>>

Next ==
  \/ Home \/ WalletCreation \/ Setup
  \/ \E kind \in Guarded, w \in Wallets : Visit(kind, w)
  \/ \E t \in Typed : Unlock(t) \/ CreateWallet(t)
  \/ WalletWritten \/ WalletFails \/ RunSetup \/ ConfigWritten \/ RunLaunch
  \/ Api \/ Crash

Spec == Init /\ [][Next]_vars

-----------------------------------------------------------------------------
(* Properties *)

\* The variables have their types; in particular no passphrase with spaces around it
\* encrypts a wallet or is held, though unlocking takes it as it is typed.
TypeOK ==
  /\ keystore \in [Wallets -> {"none", "torn", "whole"}]
  /\ secret \in [Wallets -> Stripped \cup {None}]
  /\ config \in [Wallets -> {"none", "torn", "whole"}]
  /\ passphrase \in Stripped \cup {None}
  /\ page.wallet \in Wallets \cup {NoWallet}
  /\ socket \in BOOLEAN /\ orphan \in BOOLEAN
  /\ wait \in {"no", "sent", "error", "redirect"}
  /\ answer \in {"none", "served", "raised"}
  /\ job \in {"none", "create", "setup", "account"}
  /\ launched \subseteq Wallets \X Stripped
  /\ faults \in 0 .. MaxFaults

\* _run_launch takes the passphrase of the process, which another wallet may have
\* set: a client never starts with a passphrase that does not open its keystore.
LaunchedWithOwn ==
  \A start \in launched :
    keystore[start[1]] = "whole" /\ start[2] = secret[start[1]]

\* A configuration, torn or not, belongs to a keystore that can be opened: whatever
\* creations failed and wherever the wizard crashed, setup never leads to an address
\* whose key is not on disk.
ConfigHasKey == \A w \in Wallets : config[w] # "none" => keystore[w] = "whole"

\* The passphrase the process holds opens some wallet, once its creation ended, and
\* only a creation that failed leaves one that opens none.
HeldPassphraseOpens ==
  passphrase # None /\ ~orphan /\ job # "create" =>
    \E w \in Wallets : Opens(passphrase, w)

\* A page fails on a file only if its own configuration is torn: torn keystores of
\* other wallets hide none, except from the account page, which parses them all.
TornKeyHidesNothing ==
  page.kind = "error" =>
    \/ config[page.wallet] = "torn"
    \/ page.asks = "account" /\ \E v \in Wallets : keystore[v] = "torn"

\* The polls of a page raise only where its configuration is torn or its wallet has
\* an empty passphrase, with which it is made but never signs; that an account is
\* locked does not matter.
PollsServed ==
  answer = "raised" =>
    config[page.wallet] = "torn" \/ secret[page.wallet].word = Blank

\* A keystore that was written stays, with its passphrase: no creation, crash or
\* setup later touches the key that owns the funds.
KeysSurvive ==
  [][\A w \in Wallets : keystore[w] = "whole" =>
       keystore'[w] = "whole" /\ secret'[w] = secret[w]]_vars
=============================================================================
