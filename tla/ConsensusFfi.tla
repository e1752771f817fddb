---------------------------- MODULE ConsensusFfi ----------------------------
(***************************************************************************)
(* The vocabulary shared by the node and the consensus library: the types  *)
(* of messages, the codes with which the library answers, and what the     *)
(* node concludes from each code.                                          *)
(***************************************************************************)
EXTENDS Integers

PacketType ==
    {"Block", "Transaction", "FinalizationRecord", "FinalizationMessage", "CatchUpStatus"}

DistributionMode == {"Direct", "Broadcast"}

PeerStatus == {"CatchingUp", "Pending", "UpToDate"}

\* The codes -1 .. 30, in the order of the code's table.
ResponseTable ==
    <<"BakerNotFound", "Success", "DeserializationError", "InvalidResult", "PendingBlock",
      "PendingFinalization", "Asynchronous", "DuplicateEntry", "Stale",
      "IncorrectFinalizationSession", "Unverifiable", "ContinueCatchUp", "BlockTooEarly",
      "MissingImportFile", "ConsensusShutDown", "ExpiryTooLate", "VerificationFailed",
      "NonexistingSenderAccount", "DuplicateNonce", "NonceTooLarge", "TooLowEnergy",
      "InvalidGenesisIndex", "DuplicateAccountRegistrationID",
      "CredentialDeploymentInvalidSignatures", "CredentialDeploymentInvalidIP",
      "CredentialDeploymentInvalidAR", "CredentialDeploymentExpired",
      "ChainUpdateInvalidEffectiveTime", "ChainUpdateSequenceNumberTooOld",
      "ChainUpdateInvalidSignatures", "MaxBlockEnergyExceeded", "InsufficientFunds">>

ConsensusFfiResponse == {ResponseTable[i] : i \in DOMAIN ResponseTable}

\* The response of a return code of the library.
try_from(code) == ResponseTable[code + 2]

is_successful(r) == r \in {"Success", "PendingBlock", "PendingFinalization", "Asynchronous"}

is_pending(r) == r \in {"PendingBlock", "PendingFinalization", "InvalidGenesisIndex"}

is_acceptable(r) ==
    r \notin {"BakerNotFound", "DeserializationError", "InvalidResult", "Unverifiable",
              "BlockTooEarly", "ExpiryTooLate", "VerificationFailed",
              "NonexistingSenderAccount", "DuplicateNonce", "NonceTooLarge",
              "TooLowEnergy", "ConsensusShutDown", "InvalidGenesisIndex",
              "InsufficientFunds"}

\* May a message of this type be relayed at all?
variant_rebroadcastable(t) == t # "CatchUpStatus"

\* May it be relayed after this response?
is_rebroadcastable(r, t) ==
    \/ r \in {"Success", "PendingFinalization", "Asynchronous"}
    \/ r = "PendingBlock" /\ t # "Block"
=============================================================================
