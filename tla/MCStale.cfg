SPECIFICATION Spec
CONSTANTS
    v1 = v1
    v2 = v2
    c1 = c1
    c2 = c2
    minilm = minilm
    mpnet = mpnet
    null = null
    Nothing = Nothing
    Version = {v1, v2}
    Chunk = {c1, c2}
    ChunksOf <- MCChunksOf
    Text = {old, new, blank}
    Blank = blank
    Embedder = {minilm, mpnet, null}
    ModelOf <- MCModelOf
    DimensionsOf <- MCDimensionsOf
    Worker = {w1}
    Reader = {api}
    MaxVectors = 3
INVARIANTS
    VectorsAreOfTheirText
