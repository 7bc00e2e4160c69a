SPECIFICATION Spec
CONSTANTS
    DIGEST_LEN = 2
    SIG_LEN = 1
    MAX_CBOR_DEPTH = 2
    MAX_ENTRIES = 14
    MAX_STR_LEN = 3
    MAX_REQUEST_ID_LEN = 2
    MAX_COUNTER_ENTRIES = 3
    ML_KEM_1024_ENCAPS_KEY_LEN = 3
    SNP_REPORT_LEN = 4
    MAX_PROV_PAYLOAD_LEN = 27
    MAX_CONFIG_MAP_LEN = 4
    MAX_PROV_CERT_LEN = 3
    MAX_KEYSTORE_BLOB_SIZE = 4
    MAX_QUOTE_REPORT_LEN = 3
    MAX_CERT_CHAIN_LEN = 2
    MAX_MESSAGE_SIZE = 40
    REPORT_DATA_LEN = 2
    IssuedCerts <- Certs
    Hash <- MCHash
    NONCE_LEN = 2
    TAG_LEN = 1
    SEALED_LEN = 3
    KEY_ID_LEN = 1
    MIN_REPORT_LEN = 1
    MAX_OUTBLOB_LEN = 3
    Sealings <- MCSealings
    Contexts <- MCContexts
    Carried <- MCCarried
    Presented <- MCPresented
    ProductOf <- MCProductOf
    MIN_REPORT_VERSION = 2
    MEASUREMENT_LEN = 2
    KEY_LEN = 2
    WORD = 32
    U256_LEN = 32
    KEM_LEN = 2
    PROTOCOL_VERSION = 1
    HASH_LEN = 2
    MAX_U8 = 1
    MAX_U32 = 1
    MAX_BUF = 5
    ALPHABET <- MCAlphabet
    Docs <- MCDocs
    RowSets <- MCRowSets
    FormInputs <- MCFormInputs
    Numbers <- MCNumbers
    Factors = {0, 1, 2, 255, 256}
    Values <- MCValues
    AgentValues <- MCAgentValues
    Reasons = {"", "refused"}
INVARIANTS AcceptedIsCanonical SignatureBindsBytes SignedBytesDetermineInputs ArithmeticExact ErrorOrSuccess
