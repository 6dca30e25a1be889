------------------------------ MODULE Messages ------------------------------
(***************************************************************************)
(* The schema of every struct that has a generated codec: what its Encode, *)
(* Decode, MustDecode, DecodeStrict, DecodeFromReader and                  *)
(* DecodeStrictFromReader visit, in that order, with the struct each       *)
(* nested field creates.  Codec gives the schemas their meaning.           *)
(***************************************************************************)
EXTENDS Codec

(* pkg/blockchain.                                                         *)
RawBlock == <<Bytes(1), BytesArray(2), BytesArray(3)>>
AggregateCommit == <<UInt32(1), Bytes(2), Bytes(3)>>
BlockHeader ==
    <<UInt32(1), UInt32(2), UInt32(3), Bytes(4), Bytes(5), Bytes(6), Bytes(7), Bytes(8), Bytes(9),
      UInt32(10), UInt32(11), Bool(12), Bytes(13), Decodable(14, AggregateCommit), Bytes(15)>>
Transaction == <<String(1), String(2), UInt(3), UInt(4), Bytes(5), Bytes(6), BytesArray(7)>>
BlockAsset == <<String(1), Bytes(2)>>
Block == <<Decodable(1, BlockHeader), Decodables(2, Transaction), Decodables(3, BlockAsset)>>
signingBlockHeader ==
    <<UInt32(1), UInt32(2), UInt32(3), Bytes(4), Bytes(5), Bytes(6), Bytes(7), Bytes(8), Bytes(9),
      UInt32(10), UInt32(11), Bool(12), Bytes(13), Decodable(14, AggregateCommit)>>
bytesList == <<BytesArray(1)>>
StandardTransactionEvent == <<Bool(1)>>
Event == <<String(1), String(2), Bytes(3), BytesArray(4), UInt32(5), UInt32(6)>>
SigningTransaction == <<String(1), String(2), UInt(3), UInt(4), Bytes(5), Bytes(6)>>

(* pkg/trie/rmt.                                                           *)
rmtProof == <<UInt(1), UInts(2), BytesArray(3)>>
rmtInfo == <<Bytes(1), BytesArray(2), UInt(3)>>

(* pkg/trie/smt.                                                           *)
QueryProof == <<Bytes(1), Bytes(2), Bytes(3)>>
smtProof == <<BytesArray(1), Decodables(2, QueryProof)>>

(* pkg/db/diffdb.                                                          *)
KV == <<Bytes(1), Bytes(2)>>
Diff == <<BytesArray(1), Decodables(2, KV), Decodables(3, KV)>>

(* pkg/labi.                                                               *)
InitRequest == <<Bytes(1), UInt32(2), Bytes(3)>>
InitStateMachineRequest == <<Decodable(1, BlockHeader)>>
InitStateMachineResponse == <<Bytes(1)>>
InitGenesisStateRequest == <<Bytes(1)>>
Validator == <<Bytes(1), UInt(2), Bytes(3), Bytes(4)>>
InitGenesisStateResponse == <<Decodables(1, Event), UInt(2), UInt(3), Decodables(4, Validator)>>
InsertAssetsRequest == <<Bytes(1), UInt32(2)>>
InsertAssetsResponse == <<Decodables(1, BlockAsset)>>
VerifyAssetsRequest == <<Bytes(1), Decodables(2, BlockAsset)>>
Consensus == <<Decodables(1, Validator), Bool(2), UInt32(3), UInt(4)>>
BeforeTransactionsExecuteRequest == <<Bytes(1), Decodables(2, BlockAsset), Decodable(3, Consensus)>>
BeforeTransactionsExecuteResponse == <<Decodables(1, Event)>>
AfterTransactionsExecuteRequest ==
    <<Bytes(1), Decodables(2, BlockAsset), Decodable(3, Consensus), Decodables(4, Transaction)>>
AfterTransactionsExecuteResponse ==
    <<Decodables(1, Event), UInt(2), UInt(3), Decodables(4, Validator)>>
VerifyTransactionRequest == <<Bytes(1), Decodable(2, Transaction)>>
VerifyTransactionResponse == <<Int32(1)>>
ExecuteTransactionRequest ==
    <<Bytes(1), Decodable(2, Transaction), Decodables(3, BlockAsset), Bool(4),
      Decodable(5, BlockHeader), Decodable(6, Consensus)>>
ExecuteTransactionResponse == <<Decodables(1, Event), Int32(2)>>
CommitRequest == <<Bytes(1), Bytes(2), Bytes(3), Bool(4)>>
CommitResponse == <<Bytes(1)>>
RevertRequest == <<Bytes(1), Bytes(2), Bytes(3)>>
RevertResponse == <<Bytes(1)>>
FinalizeRequest == <<UInt32(1)>>
MetadataResponse == <<Bytes(1)>>
QueryRequest == <<String(1), Bytes(2), Decodable(3, BlockHeader)>>
QueryResponse == <<Bytes(1)>>
ProveRequest == <<Bytes(1), BytesArray(2)>>
ProveResponse == <<Decodable(1, smtProof)>>

(* pkg/labi_client.                                                        *)
ipcRequest == <<UInt(1), String(2), Bytes(3)>>
errObj == <<String(1)>>
ipcResponse == <<UInt(1), Bool(2), Decodable(3, errObj), Bytes(4)>>

(* pkg/consensus/liskbft.                                                  *)
GetValidatorInfoResponse == <<UInt32(1)>>
IsBFTComplientRequest == <<Bytes(1), UInt32(2), UInt32(3), UInt32(4)>>
IsBFTComplientResponse == <<Bool(1)>>
ActiveValidator == <<Bytes(1), UInt32(2), UInt32(3)>>
BFTValidator == <<Bytes(1), UInt(2), Bytes(3)>>
BFTParams == <<UInt(1), UInt(2), UInt(3), Decodables(4, BFTValidator), Bytes(5)>>
BFTBlockHeader == <<UInt32(1), Bytes(2), UInt32(3), UInt32(4), UInt(5), UInt(6)>>
BFTVotes ==
    <<UInt32(1), UInt32(2), UInt32(3), Decodables(5, BFTBlockHeader), Decodables(6, ActiveValidator)>>
HashValidator == <<Bytes(1), UInt(2)>>
HashingValidators == <<Decodables(1, HashValidator), UInt(2)>>
Generator == <<Bytes(1), Bytes(2)>>
GeneratorKeys == <<Decodables(1, Generator)>>

(* pkg/consensus/validator.                                                *)
hashValidator == <<Bytes(1), UInt(2)>>
validatrorsHashData == <<Decodables(1, hashValidator), UInt(2)>>

(* pkg/consensus/certificate.                                              *)
Certificate == <<Bytes(1), UInt32(2), UInt32(3), Bytes(4), Bytes(5), Bytes(6), Bytes(7)>>
SigningCertificate == <<Bytes(1), UInt32(2), UInt32(3), Bytes(4), Bytes(5)>>
SingleCommit == <<Bytes(1), UInt32(2), Bytes(3), Bytes(4)>>

(* pkg/consensus/sync.                                                     *)
NodeInfo == <<UInt32(1), UInt32(2), UInt32(3), Bytes(4)>>
getHighestCommonBlockRequest == <<BytesArray(1)>>
getHighestCommonBlockResponse == <<Bytes(1)>>
getBlocksFromIDRequest == <<Bytes(1)>>
getBlocksFromIDResponse == <<BytesArray(1)>>
GetHighestCommonBlockRequest == <<BytesArray(1)>>
GetHighestCommonBlockResponse == <<Bytes(1)>>
GetBlocksFromIDRequest == <<Bytes(1)>>
GetBlocksFromIDResponse == <<Decodables(1, Block)>>

(* pkg/consensus.                                                          *)
EventNetworkBlockNewMessage == <<Decodable(1, Block)>>
EventBlockNewMessage == <<Decodable(1, Block), Decodables(2, Event)>>
EventBlockDeleteMessage == <<Decodable(1, Block)>>
EventChainForkMessage == <<Decodable(1, Block)>>
EventChangeValidator == <<Decodables(1, Validator), UInt(2), UInt(3)>>
EventBlockFinalizeMessage == <<UInt32(1), UInt32(2), Decodable(3, BlockHeader)>>
EventPostBlock == <<Bytes(1)>>
EventPostSingleCommits == <<Decodables(1, SingleCommit)>>
ValidatorsHash == <<BytesArray(1), UInts(2), UInt(3)>>
NextValidatorParams == <<Decodables(1, Validator), UInt(2), UInt(3)>>

(* pkg/generator.                                                          *)
Keypair == <<Bytes(1), Bytes(2), Bytes(3), Bytes(4)>>
GeneratorInfo == <<UInt32(1), UInt32(2), UInt32(3)>>
Keys == <<Bytes(1), String(2), Bytes(3)>>
PlainKeys == <<Bytes(1), Bytes(2), Bytes(3), Bytes(4)>>

(* pkg/txpool.                                                             *)
GetTransactionsResponse == <<Decodables(1, Transaction)>>

(* pkg/p2p.                                                                *)
Request == <<String(1), String(2), Bytes(3)>>
responseMsg == <<String(1), String(2), Bytes(3), String(4)>>
Message == <<Bytes(1)>>

(* pkg/crypto.                                                             *)
KDFParams == <<UInt32(1), UInt32(2), UInt32(3), Bytes(4)>>
CipherParams == <<Bytes(1), Bytes(2)>>
EncryptedMessage ==
    <<String(1), Bytes(2), Bytes(3), String(4), Decodable(5, KDFParams), String(6),
      Decodable(7, CipherParams)>>

(* cmd/debug/app.                                                          *)
plainKeys == <<Bytes(1), Bytes(2), Bytes(3), Bytes(4)>>

(* cmd/debug/app/modules/mock.                                             *)
Pair == <<Bytes(1), Bytes(2)>>
DataSetParams == <<Decodables(1, Pair), Bool(2)>>
UserAccount == <<UInt(1)>>
ValidatorKey == <<Bytes(1), Bytes(2), Bytes(3), UInt(4)>>
ValidatorsData == <<Decodables(1, ValidatorKey)>>
UpdateValidatorsParams == <<Decodables(1, ValidatorKey)>>

-----------------------------------------------------------------------------
Schemas ==
    [RawBlock |-> RawBlock, AggregateCommit |-> AggregateCommit, BlockHeader |-> BlockHeader,
     Transaction |-> Transaction, BlockAsset |-> BlockAsset, Block |-> Block,
     signingBlockHeader |-> signingBlockHeader, bytesList |-> bytesList,
     StandardTransactionEvent |-> StandardTransactionEvent, Event |-> Event,
     SigningTransaction |-> SigningTransaction, rmtProof |-> rmtProof, rmtInfo |-> rmtInfo,
     QueryProof |-> QueryProof, smtProof |-> smtProof, KV |-> KV, Diff |-> Diff,
     InitRequest |-> InitRequest, InitStateMachineRequest |-> InitStateMachineRequest,
     InitStateMachineResponse |-> InitStateMachineResponse,
     InitGenesisStateRequest |-> InitGenesisStateRequest, Validator |-> Validator,
     InitGenesisStateResponse |-> InitGenesisStateResponse,
     InsertAssetsRequest |-> InsertAssetsRequest, InsertAssetsResponse |-> InsertAssetsResponse,
     VerifyAssetsRequest |-> VerifyAssetsRequest, Consensus |-> Consensus,
     BeforeTransactionsExecuteRequest |-> BeforeTransactionsExecuteRequest,
     BeforeTransactionsExecuteResponse |-> BeforeTransactionsExecuteResponse,
     AfterTransactionsExecuteRequest |-> AfterTransactionsExecuteRequest,
     AfterTransactionsExecuteResponse |-> AfterTransactionsExecuteResponse,
     VerifyTransactionRequest |-> VerifyTransactionRequest,
     VerifyTransactionResponse |-> VerifyTransactionResponse,
     ExecuteTransactionRequest |-> ExecuteTransactionRequest,
     ExecuteTransactionResponse |-> ExecuteTransactionResponse, CommitRequest |-> CommitRequest,
     CommitResponse |-> CommitResponse, RevertRequest |-> RevertRequest,
     RevertResponse |-> RevertResponse, FinalizeRequest |-> FinalizeRequest,
     MetadataResponse |-> MetadataResponse, QueryRequest |-> QueryRequest,
     QueryResponse |-> QueryResponse, ProveRequest |-> ProveRequest,
     ProveResponse |-> ProveResponse, ipcRequest |-> ipcRequest, errObj |-> errObj,
     ipcResponse |-> ipcResponse, GetValidatorInfoResponse |-> GetValidatorInfoResponse,
     IsBFTComplientRequest |-> IsBFTComplientRequest,
     IsBFTComplientResponse |-> IsBFTComplientResponse, ActiveValidator |-> ActiveValidator,
     BFTValidator |-> BFTValidator, BFTParams |-> BFTParams, BFTBlockHeader |-> BFTBlockHeader,
     BFTVotes |-> BFTVotes, HashValidator |-> HashValidator,
     HashingValidators |-> HashingValidators, Generator |-> Generator,
     GeneratorKeys |-> GeneratorKeys, hashValidator |-> hashValidator,
     validatrorsHashData |-> validatrorsHashData, Certificate |-> Certificate,
     SigningCertificate |-> SigningCertificate, SingleCommit |-> SingleCommit,
     NodeInfo |-> NodeInfo, getHighestCommonBlockRequest |-> getHighestCommonBlockRequest,
     getHighestCommonBlockResponse |-> getHighestCommonBlockResponse,
     getBlocksFromIDRequest |-> getBlocksFromIDRequest,
     getBlocksFromIDResponse |-> getBlocksFromIDResponse,
     GetHighestCommonBlockRequest |-> GetHighestCommonBlockRequest,
     GetHighestCommonBlockResponse |-> GetHighestCommonBlockResponse,
     GetBlocksFromIDRequest |-> GetBlocksFromIDRequest,
     GetBlocksFromIDResponse |-> GetBlocksFromIDResponse,
     EventNetworkBlockNewMessage |-> EventNetworkBlockNewMessage,
     EventBlockNewMessage |-> EventBlockNewMessage,
     EventBlockDeleteMessage |-> EventBlockDeleteMessage,
     EventChainForkMessage |-> EventChainForkMessage,
     EventChangeValidator |-> EventChangeValidator,
     EventBlockFinalizeMessage |-> EventBlockFinalizeMessage, EventPostBlock |-> EventPostBlock,
     EventPostSingleCommits |-> EventPostSingleCommits, ValidatorsHash |-> ValidatorsHash,
     NextValidatorParams |-> NextValidatorParams, Keypair |-> Keypair,
     GeneratorInfo |-> GeneratorInfo, Keys |-> Keys, PlainKeys |-> PlainKeys,
     GetTransactionsResponse |-> GetTransactionsResponse, Request |-> Request,
     responseMsg |-> responseMsg, Message |-> Message, KDFParams |-> KDFParams,
     CipherParams |-> CipherParams, EncryptedMessage |-> EncryptedMessage, plainKeys |-> plainKeys,
     Pair |-> Pair, DataSetParams |-> DataSetParams, UserAccount |-> UserAccount,
     ValidatorKey |-> ValidatorKey, ValidatorsData |-> ValidatorsData,
     UpdateValidatorsParams |-> UpdateValidatorsParams]

=============================================================================
