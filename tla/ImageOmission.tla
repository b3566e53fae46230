----------------------------- MODULE ImageOmission -----------------------------
(***************************************************************************)
(* src/src/history.ts, for one session ID: what is left out of the context *)
(* of a request.  Failed assistants are; and of the screenshots, the older *)
(* ones beyond a number of bytes, which are then remembered by their       *)
(* content and stay out.                                                   *)
(*                                                                         *)
(* A message has one screenshot at most.  A screenshot is named by its     *)
(* size, so that equal content is an equal name; 0 is none, and what is    *)
(* left of an omitted one.                                                 *)
(***************************************************************************)
EXTENDS Integers, Sequences, FiniteSets

CONSTANTS
    MaxImageBytes,  \* resolveMaxRequestImageBytes, always positive
    ImageSize       \* what one screenshot measures in tokens

ASSUME MaxImageBytesAssumption == MaxImageBytes \in Nat \ {0}
ASSUME ImageSizeAssumption == ImageSize \in Nat

VARIABLES omittedKeys       \* omittedImageKeysBySession of the session

(* sanitizeContextMessages: assistants that failed are not sent.           *)
Sanitized(ms) ==
    LET sent[n \in 0..Len(ms)] ==
            IF n = 0 THEN <<>>
            ELSE IF ms[n].role = "assistant" /\ ms[n].failed THEN sent[n - 1]
            ELSE Append(sent[n - 1], ms[n])
    IN  sent[Len(ms)]

(* The loop of limitContextImageBytes, newest screenshot first.            *)
Scan == [kept |-> 0, dropping |-> FALSE, drop |-> {}, omitted |-> omittedKeys]

(* A plausible slip: what was omitted before is not remembered.            *)
ScanForgetful(scan, i, bytes) ==
    IF ~scan.dropping /\ (scan.kept = 0 \/ scan.kept + bytes <= MaxImageBytes)
      THEN [scan EXCEPT !.kept = @ + bytes]
      ELSE [scan EXCEPT !.dropping = TRUE, !.drop = @ \union {i}, !.omitted = @ \union {bytes}]

ScanImage(scan, i, bytes) ==
    LET sticky == bytes \in scan.omitted /\ scan.kept > 0
    IN  IF ~scan.dropping /\ ~sticky /\ (scan.kept = 0 \/ scan.kept + bytes <= MaxImageBytes)
          THEN [scan EXCEPT !.kept = @ + bytes]
          ELSE [scan EXCEPT !.dropping = @ \/ ~sticky,
                            !.drop = @ \union {i}, !.omitted = @ \union {bytes}]

(* A plausible slip: what is left of an omitted one counts as one.         *)
AllMessages(ms) == DOMAIN ms

Images(ms) == {i \in DOMAIN ms : ms[i].image # 0}

Scanned(ms) ==
    LET scan[n \in 0..Len(ms)] ==
            LET i == Len(ms) + 1 - n
            IN  IF n = 0 THEN Scan
                ELSE IF i \in Images(ms) THEN ScanImage(scan[n - 1], i, ms[i].image)
                ELSE scan[n - 1]
    IN  scan[Len(ms)]

(* What the context is sent as, and the screenshots remembered after that. *)
(* The placeholder's few characters count as nothing.                      *)
Limited(ms) ==
    LET drop == Scanned(ms).drop
    IN  [i \in DOMAIN ms |-> IF i \in drop
                              THEN [ms[i] EXCEPT !.image = 0, !.size = @ - ImageSize] ELSE ms[i]]
OmittedAfter(ms) == Scanned(ms).omitted

(* session_start and session_shutdown.                                     *)
ClearOmitted == omittedKeys' = {}
================================================================================
