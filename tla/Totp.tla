--------------------------------- MODULE Totp ---------------------------------
(***************************************************************************)
(* shared-crypto/src/totp.ts: a secret is kept as base32 text, and a code is *)
(* made for the window the clock is in. generateTOTP reads the clock before  *)
(* it waits for the HMAC and twice after it, and time passes in between.     *)
(*                                                                           *)
(* The HMAC is ideal: a code is the secret's bytes and the counter it was    *)
(* made for. Base32 characters are their values, 0 to 31.                    *)
(***************************************************************************)
EXTENDS Integers, Sequences

CONSTANTS
  Secrets,     \* the secrets: sequences of bytes
  TotpPeriod,  \* options.period, 30 in the code
  MaxClock     \* bound: the clock, in seconds

ASSUME TotpAssumption ==
  /\ Secrets \subseteq Seq(0 .. 255)
  /\ TotpPeriod \in Nat \ {0} /\ MaxClock \in Nat

VARIABLES
  secret,       \* the bytes of the secret
  clock,        \* Date.now(), in seconds
  generating,   \* where generateTOTP stands
  counter,      \* counter
  totpCode,     \* code: what the HMAC was made of, <<>> for none
  remaining,    \* remainingSeconds
  nextCodeAt    \* nextCodeAt, in seconds

totpVars == <<secret, clock, generating, counter, totpCode, remaining, nextCodeAt>>
-----------------------------------------------------------------------------
(* x >> n, and (x >> n) & 1                                                  *)
Shift(x, n) == x \div 2^n
Bit(x, n) == Shift(x, n) % 2

(* The whole groups of five in the last bits of the buffer, the oldest first. *)
Groups(buffer, bits) == [k \in 1 .. bits \div 5 |-> Shift(buffer, bits - 5 * k) % 32]

(* One byte of bytesToBase32: groups of five bits as soon as they are there. *)
(* The buffer is never cleared and overflows: of its 32 bits the lower 16    *)
(* are kept here, no more than 12 are ever read.                             *)
EncodeByte(s, byte) ==
  LET buffer == (s.buffer % 256) * 256 + byte
      bits == s.bitsInBuffer + 8
  IN [result |-> s.result \o Groups(buffer, bits),
      buffer |-> buffer,
      bitsInBuffer |-> bits % 5]

Encoding(bytes) ==
  LET step[i \in 0 .. Len(bytes)] ==
        IF i = 0 THEN [result |-> <<>>, buffer |-> 0, bitsInBuffer |-> 0]
        ELSE EncodeByte(step[i - 1], bytes[i])
  IN step

(* Not in the code: the bits that are left at the end are dropped.           *)
MutBytesToBase32(bytes) == Encoding(bytes)[Len(bytes)].result

(* bytesToBase32: at the end what is left, with zeros behind it.             *)
BytesToBase32(bytes) ==
  LET last == Encoding(bytes)[Len(bytes)] IN
  IF last.bitsInBuffer = 0 THEN last.result
  ELSE Append(last.result, (last.buffer * 2^(5 - last.bitsInBuffer)) % 32)

(* The bits of a text, and eight of them from the k-th on.                   *)
BitOf(text, k) == Bit(text[(k \div 5) + 1], 4 - (k % 5))
ByteOf(text, k) ==
  128 * BitOf(text, k) + 64 * BitOf(text, k + 1) + 32 * BitOf(text, k + 2)
    + 16 * BitOf(text, k + 3) + 8 * BitOf(text, k + 4) + 4 * BitOf(text, k + 5)
    + 2 * BitOf(text, k + 6) + BitOf(text, k + 7)

(* base32ToBytes: the bits that do not fill a byte are dropped.              *)
Base32ToBytes(text) == [n \in 1 .. (5 * Len(text)) \div 8 |-> ByteOf(text, 8 * (n - 1))]
-----------------------------------------------------------------------------
(* getRemainingSeconds                                                       *)
GetRemainingSeconds == TotpPeriod - (clock % TotpPeriod)

TotpInit ==
  /\ secret \in Secrets
  /\ clock \in 0 .. TotpPeriod
  /\ generating = "idle"
  /\ counter = 0 /\ totpCode = <<>> /\ remaining = 0 /\ nextCodeAt = 0

ReadCounter ==
  /\ generating = "idle"
  /\ generating' = "hmac"
  /\ counter' = clock \div TotpPeriod
  /\ UNCHANGED <<secret, clock, totpCode, remaining, nextCodeAt>>

(* The code is that of the secret as it is kept, and the first reading of    *)
(* the clock after it follows at once.                                       *)
HmacDone ==
  /\ generating = "hmac" /\ Base32ToBytes(BytesToBase32(secret)) # <<>>
  /\ generating' = "counted"
  /\ totpCode' = <<Base32ToBytes(BytesToBase32(secret)), counter>>
  /\ remaining' = GetRemainingSeconds
  /\ UNCHANGED <<secret, clock, counter, nextCodeAt>>

(* importKey refuses a key of no bytes.                                      *)
HmacFails ==
  /\ generating = "hmac" /\ Base32ToBytes(BytesToBase32(secret)) = <<>>
  /\ generating' = "failed"
  /\ UNCHANGED <<secret, clock, counter, totpCode, remaining, nextCodeAt>>

ReadNextCodeAt ==
  /\ generating = "counted"
  /\ generating' = "done"
  /\ nextCodeAt' = ((clock \div TotpPeriod) + 1) * TotpPeriod
  /\ UNCHANGED <<secret, clock, counter, totpCode, remaining>>

TotpSecond ==
  /\ clock < MaxClock /\ generating \notin {"done", "failed"}
  /\ clock' = clock + 1
  /\ UNCHANGED <<secret, generating, counter, totpCode, remaining, nextCodeAt>>

TotpNext == ReadCounter \/ HmacDone \/ HmacFails \/ ReadNextCodeAt \/ TotpSecond

TotpSpec == TotpInit /\ [][TotpNext]_totpVars
-----------------------------------------------------------------------------
(* CodeIsOfSecret: a code is that of the very secret that was kept as text,  *)
(* whatever its length and however far the 32 bits of the buffer overflowed, *)
(* for a window that began no later than the code was asked for; only the    *)
(* empty secret gives none; and the countdown that comes with a code never   *)
(* ends before its window, wherever the three readings of the clock fell     *)
(* (totp.ts 51-105, 123-137, 213-234, 363-370).                              *)
CodeIsOfSecret ==
  /\ generating = "done" =>
       /\ totpCode = <<secret, counter>>
       /\ counter * TotpPeriod <= clock
       /\ nextCodeAt > clock /\ nextCodeAt >= (counter + 1) * TotpPeriod
       /\ remaining \in 1 .. TotpPeriod
  /\ generating = "failed" => secret = <<>>
=============================================================================
