------------------------------ MODULE WebAuth ------------------------------
(***************************************************************************)
(* How computers get hold of a key of the vehicle and use it: the passes   *)
(* and the commands of dk-web (client/dk_client/server/websocket.py) and   *)
(* the command line client (client/dk_client/main.py), each over the BLE   *)
(* link of its station, with dk-server (store.py, reg_app.py), the key     *)
(* files of the computers (crypto.py) and the vehicle.                     *)
(*                                                                         *)
(* A station is a process that owns a BLE client: a dk-web, where the pass *)
(* of the scan and a command of a browser share one link, or a command     *)
(* line.  A step is what a coroutine does between two awaits.  A poll of   *)
(* the vehicle adds or removes a key in one step, and ends the sessions of *)
(* a removed one in it; CloudSync has the details.  The client that a pass *)
(* serves may be of any account, so its key may be any; when to scan is in *)
(* WebScan.                                                                *)
(*                                                                         *)
(* A key id is a number, its place in the order of file names.  A key pair *)
(* is made by a computer under an id once, so that the pair is that of the *)
(* two.  Bounds, not in the code: every id is minted once, a station has   *)
(* one command at a time, and MaxCommands and MaxAborts.                   *)
(***************************************************************************)
EXTENDS Integers, SequencesExt

CONSTANTS
    Web, Cli,      \* stations that run dk-web, and command lines
    Computer,
    Home,          \* the computer of a station
    Key,           \* the ids that dk-server mints
    Local,         \* the ids that load_or_create_key generates
    None,          \* no computer, no process and no key
    MaxCommands,   \* bound on the commands of browsers and command lines
    MaxAborts      \* bound on the passes that are cancelled or raise

Station == Web \union Cli
Proc    == Web \X {"pass"} \union Station \X {"command"}

ASSUME IdAssumption == Key \subseteq Int /\ Local \subseteq Int /\ Key \intersect Local = {}
ASSUME HomeAssumption == Home \in [Station -> Computer] /\ Web \intersect Cli = {}
ASSUME NoneAssumption == None \notin Computer \union Proc \union Key \union Local
ASSUME LimitAssumption == MaxCommands \in Nat /\ MaxAborts \in Nat

VARIABLES
    srv,           \* dk-server: the keys of the vehicle, in the order added
    minted,        \* dk-server: key ids generated so far
    pub,           \* dk-server: whose public key it has for an id, or None
    pem,           \* per computer, the ids with a file in ~/.dk-client
    tab,           \* vehicle: the keys with their public key, owner first
    sess,          \* vehicle: per station, its session
    at,            \* per process, what it does next
    key,           \* per process, the key that it uses
    mark,          \* history: what the last pass of a dk-web did to its link
    proven,        \* history: per station, who proved its key on this link
    commands, aborts   \* how often each happened

serverVars  == <<srv, minted, pub>>
vehicleVars == <<tab, sess>>
procVars    == <<at, key>>
counters    == <<commands, aborts>>
history     == <<mark, proven>>
vars == <<serverVars, pem, vehicleVars, procVars, history, counters>>

Closed == [auth |-> "disconnected", key |-> None, chal |-> None]
Fresh  == [Closed EXCEPT !.auth = "connected"]
Up(s)  == sess[s].auth # "disconnected"

Init ==
    /\ srv = <<>> /\ minted = {} /\ pub = [k \in Key |-> None]
    /\ pem = [c \in Computer |-> {}]
    /\ tab = <<>>
    /\ sess = [s \in Station |-> Closed]
    /\ at = [p \in Proc |-> "idle"] /\ key = [p \in Proc |-> None]
    /\ mark = [s \in Web |-> "none"] /\ proven = [s \in Station |-> {}]
    /\ commands = 0 /\ aborts = 0

-----------------------------------------------------------------------------
(* dk-server and the vehicle.                                              *)

\* The dealer adds a key, or an owner shares the vehicle.
Mint(k) ==
    /\ k \notin minted
    /\ minted' = minted \union {k}
    /\ srv' = Append(srv, k)
    /\ UNCHANGED <<pub, pem, vehicleVars, procVars, history, counters>>

Withdraw(i) ==
    /\ i \in DOMAIN srv
    /\ srv' = RemoveAt(srv, i)
    /\ UNCHANGED <<minted, pub, pem, vehicleVars, procVars, history, counters>>

Held == { tab[i].id : i \in DOMAIN tab }

Served(k) == k \in Range(srv) /\ pub[k] # None

\* A poll of the vehicle adds the served keys that are new, in their order.  An
\* id that it has keeps its public key; one deleted over BLE comes back.
Provision(i) ==
    /\ i \in DOMAIN srv
    /\ Served(srv[i]) /\ srv[i] \notin Held
    /\ \A j \in 1..(i - 1) : Served(srv[j]) => srv[j] \in Held
    /\ tab' = Append(tab, [id |-> srv[i], of |-> pub[srv[i]]])
    /\ UNCHANGED <<serverVars, pem, sess, procVars, history, counters>>

\* It removes a key that is not served, and ends the sessions of it.
Revoke(i) ==
    /\ i \in DOMAIN tab
    /\ ~Served(tab[i].id)
    /\ tab' = RemoveAt(tab, i)
    /\ sess' = [s \in Station |->
                  IF sess[s].auth = "ok" /\ sess[s].key = tab[i].id THEN Closed ELSE sess[s]]
    /\ UNCHANGED <<serverVars, pem, procVars, history, counters>>

\* DkAuth_VerifyResponse: the signature of the computer's key pair over the
\* challenge that the process itself has read.
Verifies(p, id) ==
    /\ sess[p[1]].chal = p
    /\ [id |-> id, of |-> Home[p[1]]] \in Range(tab)

Goto(p, label) == at' = [at EXCEPT ![p] = label]

Ends(p) ==
    /\ Goto(p, "idle")
    /\ key' = [key EXCEPT ![p] = None]

HangUp(s) == sess' = [sess EXCEPT ![s] = Closed]

-----------------------------------------------------------------------------
(* A pass of dk-web: _pre_register_pubkey and _connect_and_auth.           *)

\* The scan found the vehicle.  A record up to five seconds old says whether
\* the key has a public key; one that says so is right.
Find(p, k) ==
    /\ at[p] = "idle" /\ p[2] = "pass"
    /\ ~Up(p[1])
    /\ k \in Range(srv)
    /\ key' = [key EXCEPT ![p] = k]
    /\ \/ Goto(p, "register")
       \/ pub[k] # None /\ Goto(p, "connect")
    /\ UNCHANGED <<serverVars, pem, vehicleVars, history, counters>>

\* Seeded fault: dk-server replaces a public key that it has.
MutAccepts(k) == k \in Range(srv)

\* update_key_pubkey: write-once.
Accepts(k) == k \in Range(srv) /\ pub[k] = None

\* The key file is made if it is missing and its public key is sent.  The
\* pass goes on whether the request was refused, was lost or came through.
Register(p) ==
    /\ at[p] = "register"
    /\ pem' = [pem EXCEPT ![Home[p[1]]] = @ \union {key[p]}]
    /\ \/ Accepts(key[p]) /\ pub' = [pub EXCEPT ![key[p]] = Home[p[1]]]
       \/ UNCHANGED pub
    /\ Goto(p, "connect")
    /\ UNCHANGED <<srv, minted, vehicleVars, key, history, counters>>

Connect(p) ==
    /\ at[p] = "connect"
    /\ sess' = [sess EXCEPT ![p[1]] = Fresh]
    /\ proven' = [proven EXCEPT ![p[1]] = {}]
    /\ \/ /\ p[2] = "pass" /\ Goto(p, "bind")
          /\ mark' = [mark EXCEPT ![p[1]] = "none"]
       \/ p[2] = "command" /\ Goto(p, "read") /\ UNCHANGED mark
    /\ UNCHANGED <<serverVars, pem, tab, key, counters>>

ConnectFails(p) ==
    /\ at[p] = "connect"
    /\ Ends(p)
    /\ UNCHANGED <<serverVars, pem, vehicleVars, history, counters>>

\* Seeded fault: the key file is not made if it is missing.
MutBind(p, k) ==
    /\ at[p] = "bind"
    /\ k \in Range(srv) \union {key[p]}
    /\ key' = [key EXCEPT ![p] = k]
    /\ Goto(p, "read")
    /\ UNCHANGED <<serverVars, pem, vehicleVars, history, counters>>

\* The key is looked up again: for the account of the client, if the client
\* is still there, and else one whose file this computer has.
Bind(p, k) ==
    /\ at[p] = "bind"
    /\ k \in Range(srv) \union {key[p]}
    /\ key' = [key EXCEPT ![p] = k]
    /\ pem' = [pem EXCEPT ![Home[p[1]]] = @ \union {k}]
    /\ Goto(p, "read")
    /\ UNCHANGED <<serverVars, vehicleVars, history, counters>>

NotAuthorized(p) ==
    /\ at[p] = "bind"
    /\ HangUp(p[1])
    /\ Ends(p)
    /\ UNCHANGED <<serverVars, pem, tab, history, counters>>

DeviceVerified(p) ==
    /\ at[p] = "verify"
    /\ Up(p[1])
    /\ mark' = [mark EXCEPT ![p[1]] = "verified"]
    /\ Ends(p)
    /\ UNCHANGED <<serverVars, pem, vehicleVars, proven, counters>>

\* Seeded fault: a device that is not verified is not disconnected.
MutDeviceNotVerified(p) ==
    /\ at[p] = "verify"
    /\ Ends(p)
    /\ UNCHANGED <<serverVars, pem, vehicleVars, history, counters>>

\* dk-server does not know the device key, the vehicle has another one, its
\* signature is wrong, or a read fails.
DeviceNotVerified(p) ==
    /\ at[p] = "verify"
    /\ HangUp(p[1])
    /\ Ends(p)
    /\ UNCHANGED <<serverVars, pem, tab, history, counters>>

\* The scan is cancelled at an await, or a broadcast raises: nothing is tidied
\* up, and a connection that was being made may come about.
Abort(p) ==
    /\ at[p] # "idle" /\ p[2] = "pass"
    /\ aborts < MaxAborts /\ aborts' = aborts + 1
    /\ Ends(p)
    /\ mark' = [mark EXCEPT ![p[1]] = "aborted"]
    /\ \/ UNCHANGED <<sess, proven>>
       \/ /\ at[p] = "connect"
          /\ sess' = [sess EXCEPT ![p[1]] = Fresh]
          /\ proven' = [proven EXCEPT ![p[1]] = {}]
    /\ UNCHANGED <<serverVars, pem, tab, commands>>

-----------------------------------------------------------------------------
(* Challenge and response, the same for a pass and for a command.          *)

\* What a failed GATT operation does: the pass goes on to the device, which it
\* disconnects if that fails as well; a command ends, a command line with its
\* link.
Fails(p) ==
    \/ p[2] = "pass" /\ Goto(p, "verify") /\ UNCHANGED <<sess, key>>
    \/ p[2] = "command" /\ Ends(p)
       /\ IF p[1] \in Cli THEN HangUp(p[1]) ELSE UNCHANGED sess

LinkGone(p) ==
    /\ at[p] \in {"read", "write", "state", "manage"}
    /\ ~Up(p[1])
    /\ Fails(p)
    /\ UNCHANGED <<serverVars, pem, tab, history, counters>>

\* Seeded fault: a failed session gets no new challenge.
MutReadChallenge(p) ==
    /\ at[p] = "read" /\ Up(p[1])
    /\ \/ sess[p[1]].auth = "failed" /\ UNCHANGED sess
       \/ sess[p[1]].auth # "failed"
          /\ sess' = [sess EXCEPT ![p[1]] = [auth |-> "challenge", key |-> None, chal |-> p]]
    /\ Goto(p, "write")
    /\ UNCHANGED <<serverVars, pem, tab, key, history, counters>>

ReadChallenge(p) ==
    /\ at[p] = "read" /\ Up(p[1])
    /\ sess' = [sess EXCEPT ![p[1]] = [auth |-> "challenge", key |-> None, chal |-> p]]
    /\ Goto(p, "write")
    /\ UNCHANGED <<serverVars, pem, tab, key, history, counters>>

\* The vehicle accepts the response.
Accepted(p) ==
    /\ at[p] = "write" /\ Up(p[1])
    /\ sess[p[1]].auth = "challenge" /\ Verifies(p, key[p])
    /\ sess' = [sess EXCEPT ![p[1]] = [auth |-> "ok", key |-> key[p], chal |-> None]]
    /\ proven' = [proven EXCEPT ![p[1]] = @ \union {p}]
    /\ Goto(p, "state")
    /\ UNCHANGED <<serverVars, pem, tab, key, mark, counters>>

\* Seeded fault: the error of the write is not noticed.
MutRefused(p) ==
    /\ at[p] = "write" /\ Up(p[1])
    /\ ~(sess[p[1]].auth = "challenge" /\ Verifies(p, key[p]))
    /\ sess' = IF sess[p[1]].auth = "challenge"
               THEN [sess EXCEPT ![p[1]].auth = "failed", ![p[1]].chal = None] ELSE sess
    /\ Goto(p, "state")
    /\ UNCHANGED <<serverVars, pem, tab, key, history, counters>>

\* The vehicle refuses the response, and answers the write with an error; one
\* that comes in another state than "challenge" changes nothing.
Refused(p) ==
    /\ at[p] = "write" /\ Up(p[1])
    /\ \/ /\ sess[p[1]].auth = "challenge" /\ ~Verifies(p, key[p])
          /\ \/ p[2] = "pass" /\ Goto(p, "verify") /\ UNCHANGED key
             \/ p[2] = "command" /\ Ends(p)
          /\ IF p[1] \in Cli THEN HangUp(p[1])
             ELSE sess' = [sess EXCEPT ![p[1]].auth = "failed", ![p[1]].chal = None]
       \/ sess[p[1]].auth # "challenge" /\ Fails(p)
    /\ UNCHANGED <<serverVars, pem, tab, history, counters>>

\* The state is read in a request of its own.
ReadState(p) ==
    /\ at[p] = "state" /\ Up(p[1])
    /\ \/ p[2] = "pass" /\ Goto(p, "verify") /\ UNCHANGED <<sess, key>>
       \/ /\ p[2] = "command" /\ sess[p[1]].auth = "ok"
          /\ Goto(p, "manage") /\ UNCHANGED <<sess, key>>
       \/ p[2] = "command" /\ sess[p[1]].auth # "ok" /\ Fails(p)
    /\ UNCHANGED <<serverVars, pem, tab, history, counters>>

-----------------------------------------------------------------------------
(* Commands: key management of a browser, and the command line.            *)

\* load_or_create_key without an id: the first key file, or a new one.
FirstKey(c, k) ==
    \/ k \in pem[c] /\ (\A other \in pem[c] : k <= other) /\ UNCHANGED pem
    \/ pem[c] = {} /\ k \in Local /\ pem' = [pem EXCEPT ![c] = {k}]

Chooses(p, k) ==
    /\ at[p] = "idle" /\ p[2] = "command"
    /\ commands < MaxCommands /\ commands' = commands + 1
    /\ FirstKey(Home[p[1]], k)
    /\ key' = [key EXCEPT ![p] = k]
    /\ UNCHANGED <<serverVars, vehicleVars, history, aborts>>

StartCommand(p, k) == p[1] \in Web /\ Up(p[1]) /\ Chooses(p, k) /\ Goto(p, "read")

StartCli(p, k) == p[1] \in Cli /\ Chooses(p, k) /\ Goto(p, "connect")

\* key_mgmt_access: the vehicle obeys a session of the owner, whichever
\* process authenticated it.  An approval changes nothing here.
Obeys(s) ==
    \/ /\ sess[s].auth = "ok" /\ tab # <<>> /\ tab[1].id = sess[s].key
       /\ \E i \in DOMAIN tab : tab' = RemoveAt(tab, i)
    \/ UNCHANGED tab

\* The command of a browser leaves the link as it is.
Manage(p) ==
    /\ at[p] = "manage" /\ p[1] \in Web /\ Up(p[1])
    /\ Obeys(p[1])
    /\ Ends(p)
    /\ UNCHANGED <<serverVars, pem, sess, history, counters>>

ManageCli(p) ==
    /\ at[p] = "manage" /\ p[1] \in Cli /\ Up(p[1])
    /\ Obeys(p[1])
    /\ Ends(p) /\ HangUp(p[1])
    /\ UNCHANGED <<serverVars, pem, history, counters>>

\* Commands that send the vehicle nothing more: auth, and status in the end.
LeaveCli(p) ==
    /\ at[p] = "manage" /\ p[1] \in Cli
    /\ Ends(p) /\ HangUp(p[1])
    /\ UNCHANGED <<serverVars, pem, tab, history, counters>>

\* Out of range, terminated by the vehicle, or disconnected by the user.
LinkDrops(s) ==
    /\ Up(s)
    /\ HangUp(s)
    /\ UNCHANGED <<serverVars, pem, tab, procVars, history, counters>>

-----------------------------------------------------------------------------
Dealer == (\E k \in Key : Mint(k)) \/ \E i \in DOMAIN srv : Withdraw(i)

Poll == (\E i \in DOMAIN srv : Provision(i)) \/ \E i \in DOMAIN tab : Revoke(i)

PassStep(p) ==
    \/ Register(p) \/ Connect(p) \/ ConnectFails(p)
    \/ (\E k \in Key : Bind(p, k)) \/ NotAuthorized(p)
    \/ DeviceVerified(p) \/ DeviceNotVerified(p)

GattStep(p) ==
    \/ ReadChallenge(p) \/ Accepted(p) \/ Refused(p) \/ ReadState(p)
    \/ Manage(p) \/ ManageCli(p) \/ LeaveCli(p) \/ LinkGone(p)

Next ==
    \/ Dealer \/ Poll
    \/ \E p \in Proc :
         \/ \E k \in Key \union Local : Find(p, k) \/ StartCommand(p, k) \/ StartCli(p, k)
         \/ PassStep(p) \/ GattStep(p) \/ Abort(p)
    \/ \E s \in Station : LinkDrops(s)

Spec == Init /\ [][Next]_vars

(* Every request over a link is answered or fails, and a pass goes on;     *)
(* whether anybody starts one, or a command ends, is left open.            *)
Fairness == \A p \in Web \X {"pass"} : WF_vars(PassStep(p) \/ GattStep(p))

FairSpec == Spec /\ Fairness
-----------------------------------------------------------------------------
(* Each variable has its type, a challenge is pending in one state of a    *)
(* session only, and a process that signs has the file of its key.         *)
WebAuthTypeOK ==
    /\ srv \in Seq(Key) /\ minted \subseteq Key /\ Range(srv) \subseteq minted
    /\ pub \in [Key -> Computer \union {None}]
    /\ pem \in [Computer -> SUBSET (Key \union Local)]
    /\ tab \in Seq([id: Key, of: Computer])
    /\ sess \in [Station -> [auth: {"disconnected", "connected", "challenge", "ok", "failed"},
                             key: Key \union {None}, chal: Proc \union {None}]]
    /\ at \in [Proc -> {"idle", "register", "connect", "bind", "read", "write",
                        "state", "verify", "manage"}]
    /\ \A s \in Station : sess[s].chal # None <=> sess[s].auth = "challenge"
    /\ \A p \in Proc :
         /\ key[p] = None <=> at[p] = "idle"
         /\ at[p] \in {"read", "write", "state", "verify", "manage"} => key[p] \in pem[Home[p[1]]]
    /\ mark \in [Web -> {"none", "verified", "aborted"}]
    /\ proven \in [Station -> SUBSET Proc]
    /\ commands \in 0..MaxCommands /\ aborts \in 0..MaxAborts

(* A key opens the vehicle for one computer only: whatever two of them     *)
(* register under one id, with whatever stale records, and whatever the    *)
(* owner deletes and a poll adds again, no two computers are ever          *)
(* authenticated with the same key (store.py:98, write-once).              *)
OneHolder ==
    \A s, t \in Station :
       sess[s].auth = "ok" /\ sess[t].auth = "ok" /\ sess[s].key = sess[t].key
          => Home[s] = Home[t]

(* "Disconnecting - device not verified" (websocket.py:624): a dk-web that *)
(* is connected and has no pass under way has verified the vehicle, unless *)
(* its last pass was cancelled or raised.                                  *)
UnverifiedOnlyIfAborted ==
    \A s \in Web : Up(s) /\ at[<<s, "pass">>] = "idle" => mark[s] # "none"

(* A pass that reads "authenticated" and reports so to dk-server with its  *)
(* key id (websocket.py:555-563) has proven that key itself on this link,  *)
(* also when commands on the same link have read challenges, failed, or    *)
(* authenticated in between.                                               *)
ReportedAuthHappened ==
    [][\A s \in Web :
          at[<<s, "pass">>] = "state" /\ at'[<<s, "pass">>] = "verify"
             /\ sess[s].auth = "ok" => <<s, "pass">> \in proven[s]]_vars

Authorized(p) == [id |-> key[p], of |-> Home[p[1]]] \in Range(tab)

(* A pass that comes to the challenge with a key that the vehicle has      *)
(* proves it, whatever a command has left in the session before, if no     *)
(* command, no cancelled pass and no loss of link or key intervenes.       *)
UndisturbedPassAuthenticates ==
    \A s \in Web :
       at[<<s, "pass">>] = "read" /\ Authorized(<<s, "pass">>) ~>
          \/ <<s, "pass">> \in proven[s] \/ ~Up(s) \/ mark[s] = "aborted"
          \/ at[<<s, "pass">>] \notin {"idle", "verify"} /\ ~Authorized(<<s, "pass">>)
          \/ at[<<s, "command">>] # "idle"
=============================================================================
