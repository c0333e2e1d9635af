------------------------------ MODULE VaultKeys ------------------------------
(***************************************************************************)
(* shared-crypto: what is locked with the key of a child's vault: the vault  *)
(* file (vault-format.ts), its backups (backup-format.ts), the emergency kit *)
(* (emergency-kit.ts) and the parent's recovery entry (recovery.ts).         *)
(*                                                                           *)
(* The functions are a library that nothing but its tests calls yet, so the  *)
(* state is all that any call ever returned: a caller may have stored any of *)
(* it, and after a crash a file of one call beside a salt of another. Each   *)
(* value is kept with what it was made of (password, items, salt), which the *)
(* code forgets. reEncryptVault awaits three times and is three steps.       *)
(*                                                                           *)
(* Cryptography is ideal: a box opens with the key and the iv it was made    *)
(* with, and only whole. Hexadecimal, base64 and JSON are read back as they  *)
(* were written.                                                             *)
(***************************************************************************)
EXTENDS Integers, FiniteSets

CONSTANTS
  KeyPasswords,  \* passwords and passphrases
  VaultContents, \* what a vault may hold
  NewContents,   \* what a vault may hold when it is made
  MaxSeals,      \* bound: random salts and ivs
  MaxResets      \* bound: calls of reEncryptVault under way

ASSUME VaultKeysAssumption == MaxSeals \in Nat /\ MaxResets \in Nat

VARIABLES
  vaults,  \* vault files: salt, iv, ciphertext and tag, with password and items
  recoveryKeys, \* the parent's recovery entries, with the salt of their vault
  backups, \* backup manifests, with the salt of their vault and its items
  kits,    \* emergency kits, with their passphrase and the salt of the vault
  resets,  \* calls of reEncryptVault under way
  seals    \* random salts and ivs that were drawn

keysVars == <<vaults, recoveryKeys, backups, kits, resets, seals>>
-----------------------------------------------------------------------------
(* argon2id, with the parameters everybody uses.                             *)
DeriveKey(password, salt) == [password |-> password, salt |-> salt]

(* encrypt: AES-GCM with a fresh iv; the tag is cut off its end. decrypt     *)
(* puts the two together again, and gives nothing when it throws.            *)
Encrypt(plain, key, iv) ==
  [iv |-> iv,
   ciphertext |-> [plain |-> plain, key |-> key, iv |-> iv],
   tag |-> [plain |-> plain, key |-> key, iv |-> iv]]

Decrypt(box, key) ==
  IF /\ box.tag = box.ciphertext
     /\ box.ciphertext.key = key /\ box.ciphertext.iv = box.iv
  THEN {box.ciphertext.plain} ELSE {}

WithSalt(salt, box) ==
  [salt |-> salt, iv |-> box.iv, ciphertext |-> box.ciphertext, tag |-> box.tag]

(* A file that was returned, with what it was made of; a call of             *)
(* reEncryptVault, with what it has so far.                                  *)
Vault(file, password, items) == [file |-> file, password |-> password, items |-> items]

Call(vault, key, password, at, plain, salt) ==
  [vault |-> vault, key |-> key, password |-> password, at |-> at, plain |-> plain,
   salt |-> salt]

KeyOf(vault) == DeriveKey(vault.password, vault.file.salt)

(* unwrapVaultKey                                                            *)
UnwrapVaultKey(data, passphrase) == Decrypt(data, DeriveKey(passphrase, data.salt))

(* Not in the code: the salt that is returned is the old one.                *)
MutReEncryptVault(call, iv) ==
  WithSalt(call.vault.file.salt,
           Encrypt(call.plain, DeriveKey(call.password, call.salt), iv))

(* What reEncryptVault returns: the new key itself is not among it.          *)
ReEncryptVault(call, iv) ==
  WithSalt(call.salt, Encrypt(call.plain, DeriveKey(call.password, call.salt), iv))

Draw(n) == seals + n <= MaxSeals /\ seals' = seals + n

KeysInit ==
  /\ vaults = {} /\ recoveryKeys = {} /\ backups = {} /\ kits = {} /\ resets = {}
  /\ seals = 0
-----------------------------------------------------------------------------
(* deriveKey without a salt, and encryptVault.                               *)
CreateVault(password, items) ==
  /\ Draw(2)
  /\ vaults' = vaults \cup
       {Vault(WithSalt(seals + 1,
                       Encrypt(items, DeriveKey(password, seals + 1), seals + 2)),
              password, items)}
  /\ UNCHANGED <<recoveryKeys, backups, kits, resets>>

(* encryptVault under the key the vault has. A save that changes nothing     *)
(* gives the same file with another iv, and is left out (KeysNext).          *)
SaveVault(vault, items) ==
  /\ Draw(1)
  /\ vaults' = vaults \cup
       {Vault(WithSalt(vault.file.salt, Encrypt(items, KeyOf(vault), seals + 1)),
              vault.password, items)}
  /\ UNCHANGED <<recoveryKeys, backups, kits, resets>>

(* encryptRecoveryKey with the parent's public key.                          *)
EncryptRecoveryKey(vault) ==
  /\ recoveryKeys' = recoveryKeys \cup {[key |-> KeyOf(vault), salt |-> vault.file.salt]}
  /\ UNCHANGED <<vaults, backups, kits, resets, seals>>

(* encryptBackup of what decryptVault gives: the manifest has no salt.       *)
EncryptBackup(vault) ==
  /\ Draw(1)
  /\ \E plain \in Decrypt(vault.file, KeyOf(vault)) :
       backups' = backups \cup {[sealed |-> Encrypt(plain, KeyOf(vault), seals + 1),
                                 salt |-> vault.file.salt, items |-> vault.items]}
  /\ UNCHANGED <<vaults, recoveryKeys, kits, resets>>

WrapVaultKey(vault, passphrase) ==
  /\ Draw(2)
  /\ kits' = kits \cup {[passphrase |-> passphrase, salt |-> vault.file.salt,
                         data |-> WithSalt(seals + 1,
                                    Encrypt(KeyOf(vault), DeriveKey(passphrase, seals + 1),
                                            seals + 2))]}
  /\ UNCHANGED <<vaults, recoveryKeys, backups, resets>>

(* A vault saved with what decryptBackup gives for the key of a kit.         *)
RestoreBackup(vault, kit, backup) ==
  /\ Draw(1)
  /\ \E key \in UnwrapVaultKey(kit.data, kit.passphrase) :
       \E plain \in Decrypt(backup.sealed, key) :
         vaults' = vaults \cup
           {Vault(WithSalt(vault.file.salt, Encrypt(plain, KeyOf(vault), seals + 1)),
                  vault.password, backup.items)}
  /\ UNCHANGED <<recoveryKeys, backups, kits, resets>>

(* The keys a caller may try: the child's, the parent's, one from a kit.     *)
KeysAtHand ==
  {KeyOf(vault) : vault \in vaults} \cup {entry.key : entry \in recoveryKeys}
    \cup UNION {UnwrapVaultKey(kit.data, kit.passphrase) : kit \in kits}

ReEncryptCalled(vault, key, newPassword) ==
  /\ Cardinality(resets) < MaxResets
  /\ resets' = resets \cup {Call(vault, key, newPassword, "decrypt", "nothing", 0)}
  /\ UNCHANGED <<vaults, recoveryKeys, backups, kits, seals>>

(* The call fails with a key that does not open the vault.                   *)
ReEncryptDecrypts(call) ==
  /\ call.at = "decrypt"
  /\ resets' = (resets \ {call}) \cup
       {Call(call.vault, call.key, call.password, "derive", plain, 0) :
          plain \in Decrypt(call.vault.file, call.key)}
  /\ UNCHANGED <<vaults, recoveryKeys, backups, kits, seals>>

ReEncryptDerives(call) ==
  /\ call.at = "derive" /\ Draw(1)
  /\ resets' = (resets \ {call}) \cup
       {Call(call.vault, call.key, call.password, "encrypt", call.plain, seals + 1)}
  /\ UNCHANGED <<vaults, recoveryKeys, backups, kits>>

ReEncryptReturns(call) ==
  /\ call.at = "encrypt" /\ Draw(1)
  /\ resets' = resets \ {call}
  /\ vaults' = vaults \cup
       {Vault(ReEncryptVault(call, seals + 1), call.password, call.vault.items)}
  /\ UNCHANGED <<recoveryKeys, backups, kits>>

KeysNext ==
  \/ \E password \in KeyPasswords, items \in NewContents : CreateVault(password, items)
  \/ \E vault \in vaults :
       \/ \E items \in VaultContents \ {vault.items} : SaveVault(vault, items)
       \/ EncryptRecoveryKey(vault)
       \/ EncryptBackup(vault)
       \/ \E passphrase \in KeyPasswords : WrapVaultKey(vault, passphrase)
       \/ \E kit \in kits, backup \in backups : RestoreBackup(vault, kit, backup)
       \/ \E key \in KeysAtHand, password \in KeyPasswords :
            ReEncryptCalled(vault, key, password)
  \/ \E call \in resets :
       ReEncryptDecrypts(call) \/ ReEncryptDerives(call) \/ ReEncryptReturns(call)

KeysSpec == KeysInit /\ [][KeysNext]_keysVars
-----------------------------------------------------------------------------
(* All that is locked with the key of some vault.                            *)
Boxes ==
  {[sealed |-> vault.file, salt |-> vault.file.salt, items |-> vault.items] : vault \in vaults}
    \cup backups

(* EveryLockHasItsKey: of all that calls ever returned, stored in any        *)
(* combination: a vault file beside the salt of any call opens with the      *)
(* password set by its own call and the salt returned with it, to the items  *)
(* it was given through any chain of saves, resets and restores, and with    *)
(* any other password or salt not at all, never to other items; and an entry *)
(* or a kit opens the files and backups sealed between the two resets it was *)
(* made between, and none of before or after (recovery.ts 247-285,           *)
(* backup-format.ts 62-118, emergency-kit.ts 82-132).                        *)
EveryLockHasItsKey ==
  /\ \A vault, other \in vaults, password \in KeyPasswords :
       Decrypt(vault.file, DeriveKey(password, other.file.salt)) =
         IF password = vault.password /\ other.file.salt = vault.file.salt
         THEN {vault.items} ELSE {}
  /\ \A entry \in recoveryKeys, box \in Boxes :
       Decrypt(box.sealed, entry.key) = IF entry.salt = box.salt THEN {box.items} ELSE {}
  /\ \A kit \in kits, passphrase \in KeyPasswords, box \in Boxes :
       UNION {Decrypt(box.sealed, key) : key \in UnwrapVaultKey(kit.data, passphrase)} =
         IF passphrase = kit.passphrase /\ kit.salt = box.salt THEN {box.items} ELSE {}
=============================================================================
