-------------------------------- MODULE Vault -------------------------------
(***************************************************************************)
(* secrets.json: `deckagent secret` (packages/cli/src/secrets.ts) writes   *)
(* it, and the daemon reads it at each command that uses secrets           *)
(* (packages/desktop-daemon/src/secrets.ts).  No lock is taken, and        *)
(* writeFileSync empties the file before it fills it.                      *)
(***************************************************************************)
CONSTANTS
    Clis,       \* processes of `deckagent secret`
    Names,      \* of secrets
    Values,
    Torn,       \* what an emptied or garbled file holds
    Absent      \* no secret of that name

ASSUME ValuesAssumption == Absent \notin Values

VARIABLES
    vault,      \* secrets.json; no file is an empty vault
    editor,     \* each `deckagent secret`, and the vault it is about to write
    whole,      \* history: the vault as last written from beginning to end
    right       \* history: every command got the secrets it should

vaultVars == <<vault, editor, whole, right>>

Vaults == [Names -> Values \union {Absent}]
Empty  == [n \in Names |-> Absent]
Idle   == [at |-> "idle"]

ASSUME TornIsNoVault == Torn \notin Vaults

VaultTypeOK ==
    /\ vault \in Vaults \union {Torn}
    /\ editor \in [Clis -> {Idle} \union [at : {"read", "open"}, data : Vaults]]
    /\ whole \in Vaults /\ right \in BOOLEAN

VaultInit ==
    /\ vault = Empty /\ whole = Empty
    /\ editor = [c \in Clis |-> Idle] /\ right = TRUE

-----------------------------------------------------------------------------

\* readSecretsFile throws when the file cannot be parsed.
ReadSecretsFile(c, edited) ==
    /\ editor[c] = Idle /\ vault # Torn
    /\ editor' = [editor EXCEPT ![c] = [at |-> "read", data |-> edited]]
    /\ UNCHANGED <<vault, whole, right>>

SetSecret(c, n, v) == ReadSecretsFile(c, [vault EXCEPT ![n] = v])

\* A name that is not there is not found, and nothing is written.
DeleteSecret(c, n) ==
    vault[n] # Absent /\ ReadSecretsFile(c, [vault EXCEPT ![n] = Absent])

\* writeFileSync.  When another process has filled the file since this one
\* emptied it, the end of a longer text may be left behind the shorter one.
WriteSecretsFile(c) ==
    /\ \/ /\ editor[c].at = "read"
          /\ vault' = Torn
          /\ editor' = [editor EXCEPT ![c].at = "open"]
          /\ UNCHANGED whole
       \/ /\ editor[c].at = "open"
          /\ \/ vault' = editor[c].data
             \/ vault # Torn /\ vault' = Torn
          /\ whole' = editor[c].data
          /\ editor' = [editor EXCEPT ![c] = Idle]
    /\ UNCHANGED right

\* The process is killed, or the disk is full.
SecretCommandDies(c) ==
    /\ editor[c] # Idle
    /\ editor' = [editor EXCEPT ![c] = Idle]
    /\ UNCHANGED <<vault, whole, right>>

RunSecretCommand(c) ==
    \/ /\ vault # Torn
       /\ \E n \in Names : DeleteSecret(c, n) \/ \E v \in Values : SetSecret(c, n, v)
    \/ WriteSecretsFile(c)
    \/ SecretCommandDies(c)

\* uninstall removes the file.  A `deckagent secret` that has it open writes to
\* a file that has no name.
RemoveVault ==
    /\ vault' = Empty /\ whole' = Empty
    /\ editor' = [c \in Clis |-> IF editor[c].at = "open" THEN Idle ELSE editor[c]]
    /\ UNCHANGED right

ReadVault_EmptyWhenTorn == {IF vault = Torn THEN Empty ELSE vault}

\* The vaults readVault can return: none, it throws, when the file is torn.
ReadVault == {vault} \ {Torn}

\* getSecrets: names that are not in the vault are left out.
GetSecrets(v, names) == {<<n, v[n]>> : n \in {m \in names : v[m] # Absent}}

\* A command with use_secrets starts in the daemon.  When the vault cannot be
\* read the call fails and no command runs.
ApplySecretInjection(names) ==
    /\ \E v \in ReadVault :
           right' = (right /\ GetSecrets(v, names) = GetSecrets(whole, names))
    /\ UNCHANGED <<vault, editor, whole>>

-----------------------------------------------------------------------------

\* However the daemon and `deckagent secret` interleave, and wherever the
\* latter dies, a command runs with exactly the secrets of the vault as it was
\* last completely written, or it does not run: a vault that is being written,
\* or was left half written, is never taken for an empty one.
RunsWithItsSecrets == right

\* cli/src/secrets.ts: "Set or overwrite a secret."  A process that dies between
\* emptying and filling the file, or two that overlap, leave a vault in which no
\* secret can be set, deleted, listed or used until the user removes the file.
SecretsCanBeRead ==
    (\A c \in Clis : editor[c] = Idle) => vault # Torn
=============================================================================
