------------------------------- MODULE UserFiles -------------------------------
(***************************************************************************)
(* What the client keeps about its user from one start to the next         *)
(* (client/AccountManager, client/ConfigManager): ./user/account.xml, with *)
(* the key pair the server knows the user by, and ./user/options.xml.      *)
(*                                                                         *)
(* A file is written whole.  The server is what it has heard: public keys. *)
(***************************************************************************)
EXTENDS Integers, Sequences, FiniteSets

CONSTANTS
    Fields, Texts,      \* what account.xml holds besides the keys, and values
    Options, Settings,  \* what options.xml holds, and values
    DefaultText, DefaultSetting,
    KeyPairs,           \* pairs Encrypter can make: [public_key, private_key]
    Missing,
    MaxStarts           \* bound on the starts of the client

Pad == 64  \* '=' of base64; a letter is its number

ASSUME UserFilesAssumption ==
    /\ DefaultText \in Texts /\ DefaultSetting \in [Options -> Settings]
    /\ \A pair \in KeyPairs :
           pair.public_key \in Seq(0..255) \ {<<>>} /\ pair.private_key \in Seq(0..255) \ {<<>>}
    /\ Missing \notin [fields : [Fields -> Texts], public_key : Seq(0..Pad), private_key : Seq(0..Pad)]

VARIABLES
    client,       \* "off", "init", "title" or "world"
    account,      \* AccountManager
    options,      \* ConfigManager
    account_xml, options_xml,  \* files, Missing while there is none
    fingerprints, \* public keys the server has been shown
    entered,      \* what the user has set, as of the last clean end
    starts

userVars == <<client, account, options, account_xml, options_xml, fingerprints, entered, starts>>

-----------------------------------------------------------------------------
\* Utils::Base64Encode: letter j is six bits of two neighbouring bytes, zeros
\* after the last one.
Byte(bytes, i) == IF i <= Len(bytes) THEN bytes[i] ELSE 0
Letter(bytes, j) ==
    LET bit == 6 * (j - 1)
        first == bit \div 8 + 1
    IN  ((256 * Byte(bytes, first) + Byte(bytes, first + 1)) \div 2^(10 - (bit % 8))) % 64
Base64Encode(bytes) ==
    [j \in 1..(4 * ((Len(bytes) + 2) \div 3)) |->
        IF j <= (8 * Len(bytes) + 5) \div 6 THEN Letter(bytes, j) ELSE Pad]

\* Utils::Base64Decode: padding, which Save puts only at the end, is passed over,
\* bits left at the end are dropped.
Unpadded(text) == SubSeq(text, 1, Cardinality({j \in DOMAIN text : text[j] # Pad}))
Base64Decode(text) ==
    LET letters == Unpadded(text)
    IN  [i \in 1..((6 * Len(letters)) \div 8) |->
            LET bit == 8 * (i - 1)
                first == bit \div 6 + 1
            IN  ((64 * letters[first] + letters[first + 1]) \div 2^(4 - (bit % 6))) % 256]

-----------------------------------------------------------------------------
UserInit ==
    /\ client = "off"
    /\ account = Missing /\ options = DefaultSetting
    /\ account_xml = Missing /\ options_xml = Missing
    /\ fingerprints = {} /\ starts = 0
    /\ entered = [account |-> Missing, options |-> Missing]

\* AccountManager::Save and ConfigManager::Save
SaveAccount(held) ==
    account_xml' = [fields |-> held.fields,
                    public_key |-> Base64Encode(held.public_key),
                    private_key |-> Base64Encode(held.private_key)]
SaveOptions == options_xml' = options

\* The constructor of ConfigManager.
LoadOptions ==
    /\ client = "off" /\ starts < MaxStarts
    /\ client' = "init" /\ starts' = starts + 1
    /\ options' = IF options_xml = Missing THEN DefaultSetting ELSE options_xml
    /\ UNCHANGED <<account, account_xml, options_xml, fingerprints, entered>>

\* AccountManager::Load in Init::AsyncInitialize; a pair is made unless both
\* keys are in the file, and whatever is loaded is saved.
KeysRead(pair) ==
    LET kept == IF account_xml = Missing THEN [public_key |-> <<>>, private_key |-> <<>>]
                ELSE [public_key |-> Base64Decode(account_xml.public_key),
                      private_key |-> Base64Decode(account_xml.private_key)]
    IN  IF kept.public_key = <<>> \/ kept.private_key = <<>> THEN pair ELSE kept

Loaded(pair) ==
    [fields |-> IF account_xml = Missing THEN [f \in Fields |-> DefaultText] ELSE account_xml.fields,
     public_key |-> KeysRead(pair).public_key,
     private_key |-> KeysRead(pair).private_key]

\* Mutant of LoadAccount: the pair is saved only at the end of the main loop.
LoadAccountUnsaved(pair) ==
    /\ client = "init" /\ client' = "title"
    /\ account' = Loaded(pair)
    /\ UNCHANGED <<options, account_xml, options_xml, fingerprints, entered, starts>>

LoadAccount(pair) ==
    /\ client = "init" /\ client' = "title"
    /\ account' = Loaded(pair)
    /\ SaveAccount(Loaded(pair))
    /\ UNCHANGED <<options, options_xml, fingerprints, entered, starts>>

\* Client::Client gives the session the keys; ServerReceiveClientInfo shows them.
LogOn ==
    /\ client = "title" /\ client' = "world"
    /\ fingerprints' = fingerprints \cup {account.public_key}
    /\ UNCHANGED <<account, options, account_xml, options_xml, entered, starts>>

\* Account.updateName, updateModelName and updateTrip of the scripts.
UpdateField(f, text) ==
    /\ client = "world"
    /\ account' = [account EXCEPT !.fields[f] = text]
    /\ UNCHANGED <<client, options, account_xml, options_xml, fingerprints, entered, starts>>

\* A setter of ConfigManager, from a tab of the options scene.
SetOption(o, value) ==
    /\ client \in {"title", "world"}
    /\ options' = [options EXCEPT ![o] = value]
    /\ UNCHANGED <<client, account, account_xml, options_xml, fingerprints, entered, starts>>

\* MainLoop::~MainLoop, when the channel changes: another main loop follows.
Warp ==
    /\ client = "world"
    /\ SaveAccount(account)
    /\ entered' = [entered EXCEPT !.account = account]
    /\ UNCHANGED <<client, account, options, options_xml, fingerprints, starts>>

\* The client ends: ~MainLoop if there is one, then ~ConfigManager.
Exit ==
    /\ client \in {"title", "world"} /\ client' = "off"
    /\ IF client = "world" THEN SaveAccount(account) ELSE UNCHANGED account_xml
    /\ SaveOptions
    /\ entered' = [account |-> account, options |-> options]
    /\ UNCHANGED <<account, options, fingerprints, starts>>

\* The client is killed: nothing is destroyed, nothing saved.
Kill ==
    /\ client # "off" /\ client' = "off"
    /\ UNCHANGED <<account, options, account_xml, options_xml, fingerprints, entered, starts>>

UserNext ==
    \/ LoadOptions \/ LogOn \/ Warp \/ Exit \/ Kill
    \/ \E pair \in KeyPairs : LoadAccount(pair)
    \/ \E f \in Fields, text \in Texts : UpdateField(f, text)
    \/ \E o \in Options, value \in Settings : SetOption(o, value)

UserSpec == UserInit /\ [][UserNext]_userVars

-----------------------------------------------------------------------------
(* However the client ends, a server that has once been shown a key is     *)
(* never shown another one by this user; and what the user had entered at  *)
(* the last clean end is what the next start begins with (AccountManager   *)
(* and ConfigManager, Load and Save).                                      *)
StartsWithWhatWasEntered ==
    /\ client = "off" /\ client' = "init" /\ entered.options # Missing => options' = entered.options
    /\ client = "init" /\ client' = "title" /\ entered.account # Missing => account' = entered.account
ProfileKept == [](Cardinality(fingerprints) <= 1) /\ [][StartsWithWhatWasEntered]_userVars
=============================================================================
