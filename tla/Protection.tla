----------------------------- MODULE Protection -----------------------------
(***************************************************************************)
(* What the data policies of a field do to its value: utils/protection.ts, *)
(* database/policies/ and the transform that reverses them.  A stored text *)
(* is the plain value somebody wrote, the seals put on it since, outermost *)
(* last, and the label "v<n>:" in front of it.  A label is found by its    *)
(* colon, so a plain value with a colon has the label "other".  An array   *)
(* is protected element by element under one label and is one text here.   *)
(***************************************************************************)
EXTENDS Sequences, Integers

CONSTANTS
    WithColon,  \* the plain values with a colon in them
    Nothing     \* undefined: no value

PlainText(p) ==
    [plain |-> p, seals |-> <<>>, label |-> IF p \in WithColon THEN "other" ELSE "none"]

IsPlain(t) == t = PlainText(t.plain)

\* The text under the label that appendVersion() puts in front of it.
Sealed(t, by, key, label) ==
    [plain |-> t.plain,
     seals |-> Append(t.seals, [by |-> by, key |-> key, under |-> t.label]),
     label |-> label]

Outer(t) == t.seals[Len(t.seals)]

IsSealed(t, by, key) ==
    t.label = "none" /\ t.seals # <<>> /\ Outer(t).by = by /\ Outer(t).key = key

Unsealed(t) ==
    [plain |-> t.plain, seals |-> SubSeq(t.seals, 1, Len(t.seals) - 1), label |-> Outer(t).under]

ExtractVersion(t) ==
    [message |-> [t EXCEPT !.label = "none"],
     version |-> IF t.label = "none" THEN "v0" ELSE t.label]

-----------------------------------------------------------------------------
\* Keys.  An environment is a set of <<name, version>>; the public and the
\* private key of a version make one key.

MaskKey(version, env) ==
    IF <<"DATA_SECRET_KEY", version>> \in env THEN <<"DATA_SECRET_KEY", version>>
    ELSE IF <<"DATA_AES_KEY", version>> \in env THEN <<"DATA_AES_KEY", version>>
    ELSE <<"missing", version>>

EncryptSecret(action, type, version) ==
    CASE type = "symmetric" -> <<"DATA_AES_KEY", version>>
      [] type = "asymmetric" /\ action = "encrypt" -> <<"DATA_RSA_PUB", version>>
      [] type = "asymmetric" /\ action = "decrypt" -> <<"DATA_RSA_KEY", version>>

\* Without its key each of these logs the error and returns its input.
Encrypt(t, type, version, env) ==
    IF EncryptSecret("encrypt", type, version) \in env
    THEN Sealed(t, "encrypt", <<type, version>>, version)
    ELSE t

Decrypt(t, type, version, env) ==
    IF EncryptSecret("decrypt", type, version) \in env /\ IsSealed(t, "encrypt", <<type, version>>)
    THEN Unsealed(t)
    ELSE t

Mask(t, version, env) ==
    IF MaskKey(version, env)[1] # "missing"
    THEN Sealed(t, "mask", MaskKey(version, env), version)
    ELSE t

\* Masking proves nothing: what is not masked with the key comes out garbled.
Unmask(t, version, env) ==
    LET key == MaskKey(version, env) IN
    IF key[1] = "missing" THEN t
    ELSE IF IsSealed(t, "mask", key) THEN Unsealed(t)
    ELSE Sealed(t, "garbled", key, "none")

Hash(t) == Sealed(t, "hash", <<"no key", "none">>, "none")

-----------------------------------------------------------------------------
\* Policies.  A protection has an activeVersion and versionConfigs, from
\* versions and "default" to [strategy, type].

NormalizeDataProtection(option) ==
    IF "activeVersion" \in DOMAIN option THEN option
    ELSE [activeVersion |-> "v0", versionConfigs |-> [v \in {"default"} |-> option]]

HasVariant(protection, version) ==
    {version, "default"} \cap DOMAIN protection.versionConfigs # {}

Variant(protection, version) ==
    protection.versionConfigs[
        IF version \in DOMAIN protection.versionConfigs THEN version ELSE "default"]

\* dataProtectionSetterDefinition(); it throws where there is no variant.
Protect(protection, t, env) ==
    LET version == protection.activeVersion
        variant == Variant(protection, version) IN
    IF t = Nothing THEN Nothing
    ELSE CASE variant.strategy = "mask" -> Mask(t, version, env)
           [] variant.strategy = "encrypt" -> Encrypt(t, variant.type, version, env)
           [] variant.strategy = "hash" -> Hash(t)

\* createUnmaskableObject(), createDecryptableObject(), createVerifiableObject():
\* the text without its label, and a method.
WithMethod(variant, read) ==
    [method |-> CASE variant.strategy = "mask" -> "unmask"
                  [] variant.strategy = "encrypt" -> "decrypt"
                  [] variant.strategy = "hash" -> "verify",
     text |-> read.message, version |-> read.version, type |-> variant.type]

\* dataProtectionGetterDefinition(): the object a getter returns.
Accessor(protection, t) ==
    LET read == ExtractVersion(t) IN
    IF HasVariant(protection, read.version)
    THEN WithMethod(Variant(protection, read.version), read)
    ELSE [method |-> "none", text |-> t, version |-> read.version, type |-> "symmetric"]

\* transformByDataProtection(): a hashed field is dropped.
Unprotect(protection, t, env) ==
    IF t = Nothing THEN Nothing
    ELSE LET a == Accessor(protection, t) IN
         CASE a.method = "unmask" -> Unmask(a.text, a.version, env)
           [] a.method = "decrypt" -> Decrypt(a.text, a.type, a.version, env)
           [] a.method \in {"verify", "none"} -> Nothing

\* dataAccessGetterDefinition(): what a session may read of a field.  The
\* virtual mask of a protected field is of one algorithm and one key.
Access(strategy, t, session) ==
    IF t = Nothing \/ strategy = "internal" \/ session = "none"
       \/ (strategy = "private" /\ session = "anonymous")
    THEN Nothing
    ELSE IF strategy = "protected" /\ session = "anonymous"
    THEN Sealed(t, "mask", <<"virtual", "none">>, t.label)
    ELSE t
=============================================================================
