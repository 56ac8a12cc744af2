\* Two main coroutines and two stacks, with images of up to three words: save
\* buffers of one word are doubled twice.
SPECIFICATION Spec
CONSTANTS
    Co = {c1, c2}
    Main = {m1, m2}
    Stack = {s1, s2}
    Word = {w1}
    NULL = NULL
    Junk = Junk
    Limit = 3
    Slack = 0
    InitSz = 1
SYMMETRY Symmetry
PROPERTY
    ImplementsPrivateStacks
