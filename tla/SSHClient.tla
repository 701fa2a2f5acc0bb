------------------------------ MODULE SSHClient ------------------------------
(***************************************************************************)
(* ssh.NewClientInteractive and Client.Close (src/lib/ssh/client.go): the  *)
(* host-key callback from UserKnownHostsFile, then one dial per key of the *)
(* SSH agent, then one dial per private key of IdentityFile, and the key   *)
(* handed to the agent after a private key connected.                      *)
(*                                                                         *)
(* What the code asks of its environment is one record, env, chosen in     *)
(* Init and never changed: the keys the server accepts, the server's host  *)
(* key against the known_hosts files, the UserKnownHostsFile entries, the  *)
(* IdentityFile list, whether IdentityAgent is set, the agent's keys and   *)
(* the keys ssh.NewSignerFromKey refuses.  A dial may also fail on the     *)
(* network, and loading a private key may fail (an unreadable file or     *)
(* three wrong passphrases): these are choices made at each step.          *)
(***************************************************************************)
EXTENDS Naturals, Sequences, SequencesExt, FiniteSetsExt

CONSTANTS
    Envs,       \* the environments the client may meet (records, see Init)
    FileKey,    \* the key stored in each identity file
    None

VARIABLES
    env,          \* the environment of this call
    pc,           \* where NewClientInteractive is, or "connected"/"closed"
    result,       \* what it returned: "none" yet, "nil", "client", "error"
    insecure,     \* HostKeyCallback is ssh.InsecureIgnoreHostKey
    signers,      \* the agent's signers, in the order Signers() lists them
    i,            \* index in the loop over signers or identity files
    err,          \* the loop's err variable
    client,       \* cl.Client: None, or the key and the way it connected
    conns,        \* SSH connections open
    identityFile, \* cl.identityFile
    pkey,         \* the private key last loaded
    agentKeys,    \* the keys the agent holds
    history       \* what went wrong on the way, for the properties

vars == <<env, pc, result, insecure, signers, i, err, client, conns,
          identityFile, pkey, agentKeys, history>>

(* setConfigHostKeyCallback: the first "none" entry of UserKnownHostsFile  *)
(* makes the callback accept any host; a path that cannot be unfolded      *)
(* before it is an error; otherwise knownhosts.New reads the files that    *)
(* exist, and fails on one it cannot parse.                                *)
HostKeyCallback(kh) ==
    LET stop == {j \in DOMAIN kh : kh[j] \in {"none", "badpath"}}
    IN  IF stop # {} THEN IF kh[Min(stop)] = "none" THEN "insecure" ELSE "error"
        ELSE IF \E j \in DOMAIN kh : kh[j] = "corrupt" THEN "error"
        ELSE "knownhosts"

(* The host key passes the callback: any host when insecure, else only a  *)
(* host whose key is in one of the files that exist.                       *)
HostKeyAccepted ==
    \/ insecure
    \/ /\ env.hostKey = "known"
       /\ \E j \in DOMAIN env.knownHosts : env.knownHosts[j] = "file"

(* ssh.Dial with one public key: the host key is checked before the user  *)
(* is authenticated; the network may fail either way.                      *)
DialOutcomes(k) ==
    {"neterr"} \cup
    {IF ~HostKeyAccepted THEN "keyerr"
     ELSE IF k \in env.accepted THEN "ok" ELSE "autherr"}

Init ==
    /\ env \in Envs
    /\ pc = "idle" /\ result = "none" /\ insecure = FALSE
    /\ signers = <<>> /\ i = 1 /\ err = "nil"
    /\ client = None /\ conns = 0 /\ identityFile = None /\ pkey = None
    /\ agentKeys = env.agentKeys
    /\ history = [netFailed |-> FALSE, agentFailed |-> FALSE,
                  aborted |-> FALSE, loadFailed |-> {}]

Return(r) == pc' = (IF r = "client" THEN "connected" ELSE "done") /\ result' = r

Noted(field) == history' = [history EXCEPT ![field] = TRUE]

-----------------------------------------------------------------------------
(* NewClientInteractive(nil) returns nil, nil.                             *)
NewNilSection ==
    /\ pc = "idle"
    /\ Return("nil")
    /\ UNCHANGED <<env, insecure, signers, i, err, client, conns, identityFile,
                   pkey, agentKeys, history>>

(* The client is built and setConfigHostKeyCallback runs.                  *)
SetHostKeyCallback ==
    /\ pc = "idle"
    /\ LET cb == HostKeyCallback(env.knownHosts)
       IN  IF cb = "error"
           THEN Return("error") /\ UNCHANGED insecure
           ELSE /\ insecure' = (cb = "insecure")
                /\ pc' = IF env.hasAgent THEN "agent" ELSE "files"
                /\ UNCHANGED result
    /\ UNCHANGED <<env, signers, i, err, client, conns, identityFile, pkey,
                   agentKeys, history>>

(* IdentityAgent is set: dial its socket and list its signers.  A failure  *)
(* of either returns the error.                                            *)
AgentSigners ==
    /\ pc = "agent"
    /\ \/ /\ Return("error") /\ Noted("agentFailed")
          /\ UNCHANGED signers
       \/ /\ signers' = SetToSeq(agentKeys)
          /\ pc' = "signers"
          /\ UNCHANGED <<result, history>>
    /\ UNCHANGED <<env, insecure, i, err, client, conns, identityFile, pkey,
                   agentKeys>>

(* dialWithSigners: one dial per signer; the first that connects ends     *)
(* NewClientInteractive with the client.                                   *)
DialSigner ==
    /\ pc = "signers" /\ i <= Len(signers)
    /\ \E o \in DialOutcomes(signers[i]) :
          IF o = "ok"
          THEN /\ client' = [key |-> signers[i], via |-> "agent"]
               /\ conns' = conns + 1
               /\ Return("client")
               /\ UNCHANGED <<i, err, history>>
          ELSE /\ err' = o /\ i' = i + 1
               /\ history' = [history EXCEPT !.netFailed = @ \/ o = "neterr"]
               /\ UNCHANGED <<pc, result, client, conns>>
    /\ UNCHANGED <<env, insecure, signers, identityFile, pkey, agentKeys>>

\* No fallback: an agent whose keys all failed ends NewClientInteractive.
SignersDoneNoFallback ==
    /\ pc = "signers" /\ i > Len(signers)
    /\ IF err # "nil" \/ env.files = <<>>
       THEN Return("error") /\ UNCHANGED <<i, err>>
       ELSE pc' = "files" /\ i' = 1 /\ err' = "nil" /\ UNCHANGED result
    /\ UNCHANGED <<env, insecure, signers, client, conns, identityFile, pkey,
                   agentKeys, history>>

(* No signer connected.  A host-key error (knownhosts.KeyError) returns,   *)
(* as the private keys would meet it too; otherwise NewClientInteractive   *)
(* goes on to IdentityFile, and returns an error if there is none.         *)
SignersDone ==
    /\ pc = "signers" /\ i > Len(signers)
    /\ IF err = "keyerr" \/ env.files = <<>>
       THEN Return("error") /\ UNCHANGED <<i, err>>
       ELSE pc' = "files" /\ i' = 1 /\ err' = "nil" /\ UNCHANGED result
    /\ UNCHANGED <<env, insecure, signers, client, conns, identityFile, pkey,
                   agentKeys, history>>

(* Without IdentityAgent, an empty IdentityFile is an error.               *)
NoIdentityFile ==
    /\ pc = "files" /\ i = 1 /\ err = "nil" /\ env.files = <<>>
    /\ Return("error")
    /\ UNCHANGED <<env, insecure, signers, i, err, client, conns, identityFile,
                   pkey, agentKeys, history>>

\* A connection without "cl.identityFile = identityFile".
ConnectedNoRecord(f, k) ==
    /\ client' = [key |-> k, via |-> "file"] /\ conns' = conns + 1
    /\ err' = "nil" /\ pc' = "filesdone"
    /\ UNCHANGED <<result, i, identityFile, history>>

\* A connection without the "break": the loop goes on to the next file.
ConnectedNoBreak(f, k) ==
    /\ client' = [key |-> k, via |-> "file"] /\ conns' = conns + 1
    /\ identityFile' = f /\ err' = "nil" /\ i' = i + 1
    /\ UNCHANGED <<pc, result, history>>

(* A dial that succeeds records the identity file and breaks the loop.     *)
Connected(f, k) ==
    /\ client' = [key |-> k, via |-> "file"] /\ conns' = conns + 1
    /\ identityFile' = f /\ err' = "nil" /\ pc' = "filesdone"
    /\ UNCHANGED <<result, i, history>>

(* One identity file f holding key k: a key that does not load is skipped, *)
(* a key ssh cannot sign with ends the call, otherwise it dials.           *)
FileStep(f, k) ==
    \/ /\ err' = "load" /\ i' = i + 1 /\ pkey' = None
       /\ history' = [history EXCEPT !.loadFailed = @ \cup {f}]
       /\ UNCHANGED <<pc, result, client, conns, identityFile>>
    \/ /\ k \in env.unsupported
       /\ Return("error") /\ Noted("aborted") /\ pkey' = k
       /\ UNCHANGED <<i, err, client, conns, identityFile>>
    \/ /\ k \notin env.unsupported /\ pkey' = k
       /\ \E o \in DialOutcomes(k) :
             IF o = "ok"
             THEN Connected(f, k)
             ELSE /\ err' = o /\ i' = i + 1
                  /\ history' = [history EXCEPT !.netFailed = @ \/ o = "neterr"]
                  /\ UNCHANGED <<pc, result, client, conns, identityFile>>

(* dialWithPrivateKeys: the next iteration of its loop over IdentityFile. *)
DialFile ==
    /\ pc = "files" /\ i <= Len(env.files)
    /\ FileStep(env.files[i], FileKey[env.files[i]])
    /\ UNCHANGED <<env, insecure, signers, agentKeys>>

(* After the loop: the last error is returned, or "no IdentityFile         *)
(* supported" without a client.  The loop leaves err nil only by breaking  *)
(* with a client, so the two checks are one guard here.                    *)
FilesDone ==
    /\ pc \in {"files", "filesdone"}
    /\ pc = "files" => i > Len(env.files) /\ env.files # <<>>
    /\ \/ /\ err # "nil" \/ client = None
          /\ Return("error")
          /\ UNCHANGED agentKeys
       \/ /\ err = "nil" /\ client # None /\ ~env.hasAgent
          /\ Return("client")
          /\ UNCHANGED agentKeys
       \/ /\ err = "nil" /\ client # None /\ env.hasAgent
          /\ \/ agentKeys' = agentKeys \cup {pkey}
             \/ UNCHANGED agentKeys      \* sshAgent.Add fails; only logged
          /\ Return("client")
    /\ UNCHANGED <<env, insecure, signers, i, err, client, conns, identityFile,
                   pkey, history>>

(* Client.Close closes the connection and clears the client's fields.      *)
Close ==
    /\ pc = "connected"
    /\ pc' = "closed" /\ client' = None /\ conns' = conns - 1
    /\ UNCHANGED <<env, result, insecure, signers, i, err, identityFile, pkey,
                   agentKeys, history>>

Next ==
    \/ NewNilSection
    \/ SetHostKeyCallback
    \/ AgentSigners
    \/ DialSigner
    \/ SignersDone
    \/ NoIdentityFile
    \/ DialFile
    \/ FilesDone
    \/ Close

Spec == Init /\ [][Next]_vars

-----------------------------------------------------------------------------
(* Properties.                                                             *)

(* A client NewClientInteractive hands out is connected with a key the     *)
(* server accepts, to a host the callback accepts; when the key came from  *)
(* IdentityFile, cl.identityFile names the file holding that key, which    *)
(* ScpGet and ScpPut later pass to scp as -i.                              *)
ConnectedWithAcceptedKey ==
    pc = "connected" =>
        /\ client.key \in env.accepted
        /\ HostKeyAccepted
        /\ client.via = "file" =>
              identityFile # None /\ FileKey[identityFile] = client.key
        /\ client.via = "agent" => identityFile = None

(* No SSH connection is left open that the caller cannot close: at most   *)
(* one is open, it is cl.Client, and an error return leaves none.          *)
NoLeakedConnection ==
    conns = IF client # None /\ result \in {"none", "client"} THEN 1 ELSE 0

(* With the host key accepted, the network up, the agent answering and     *)
(* every key one ssh can sign with, NewClientInteractive fails only when   *)
(* no key of the agent and no loadable key of IdentityFile is accepted:    *)
(* the agent's keys are tried first, then each identity file in turn.      *)
ErrorMeansNoUsableKey ==
    LET everythingElseWorked ==
            /\ HostKeyCallback(env.knownHosts) # "error" /\ HostKeyAccepted
            /\ ~history.netFailed /\ ~history.agentFailed /\ ~history.aborted
    IN  result = "error" /\ everythingElseWorked =>
            /\ env.hasAgent => env.agentKeys \cap env.accepted = {}
            /\ \A j \in DOMAIN env.files :
                  \/ env.files[j] \in history.loadFailed
                  \/ FileKey[env.files[j]] \notin env.accepted
=============================================================================
